---- MODULE Spec2Model ----
(***************************************************************************)
(* Barter Charter: the game engine (src/game_engine.py) driven by the     *)
(* request handlers of the server (src/server.py).                        *)
(*                                                                         *)
(* Conventions of the model                                                *)
(*  - a Python dict is a TLA+ function whose DOMAIN is the dict's key set; *)
(*    d.get(k, v) is Get(d, k, v);                                         *)
(*  - the team named "Team i" is the integer i;                            *)
(*  - a Python float that holds a quotient is the record                   *)
(*    [num |-> n, den |-> d]: the double nearest to n/d.  Sums and         *)
(*    products of such values (portfolio values, penalties) are carried    *)
(*    as exact fractions in lowest terms;                                  *)
(*  - game_state = None is the record None.                                *)
(***************************************************************************)
EXTENDS Integers, Sequences, FiniteSets, TLC

\* Rupee price of one unit of the base commodity.
BASE_PRICE_RS == 1000

(***************************************************************************)
(* Bounds of the model.                                                    *)
(***************************************************************************)
\* start_round is not taken beyond this round number.
MaxRound == 2
\* No trade is journaled once the journal holds this many trades.
MaxTrades == 2
\* How many requests the worker threads take when handlers overlap.
MaxRequests == 5
\* How far other code may advance the random module after a seeding.
MaxDraws == 3

(***************************************************************************)
(* Arithmetic helpers.                                                     *)
(***************************************************************************)
Max(a, b) == IF a >= b THEN a ELSE b
Min(a, b) == IF a <= b THEN a ELSE b
Abs(a) == IF a < 0 THEN 0 - a ELSE a

RECURSIVE GCD(_, _)
GCD(a, b) == IF b = 0 THEN a ELSE GCD(b, a % b)

RECURSIVE SumOver(_, _)
\* Sum of f[x] over the finite set S.
SumOver(f, S) ==
    IF S = {} THEN 0
    ELSE LET x == CHOOSE y \in S : TRUE IN f[x] + SumOver(f, S \ {x})

\* Python's round() of the exact quotient n/d (n >= 0, d > 0): nearest integer,
\* an exact half goes to the even neighbour.
RoundHalfEven(n, d) ==
    LET q == n \div d
        r == n % d
    IN  IF 2 * r < d THEN q
        ELSE IF 2 * r > d THEN q + 1
        ELSE IF q % 2 = 0 THEN q ELSE q + 1

\* round() of a float that was itself computed by several rounded float
\* operations whose exact value is n/d.  Away from an exact half the float error
\* cannot change the result; at an exact half the accumulated rounding error of
\* the operands decides, so both neighbours are possible results.
RoundOfComputed(n, d) ==
    LET q == n \div d
        r == n % d
    IN  IF 2 * r < d THEN {q}
        ELSE IF 2 * r > d THEN {q + 1}
        ELSE {q, q + 1}

(***************************************************************************)
(* Fractions in lowest terms, for sums of float prices.                    *)
(***************************************************************************)
Frac(n, d) == LET g == GCD(Abs(n), d) IN [num |-> n \div g, den |-> d \div g]
FracZero == [num |-> 0, den |-> 1]
FracAdd(a, b) == Frac(a.num * b.den + b.num * a.den, a.den * b.den)
FracScale(k, a) == Frac(k * a.num, a.den)
FracLeq(a, b) == a.num * b.den <= b.num * a.den

(***************************************************************************)
(* Dicts.                                                                  *)
(***************************************************************************)
EmptyDict == [k \in {} |-> 0]
Get(d, k, default) == IF k \in DOMAIN d THEN d[k] ELSE default
Put(d, k, v) == [x \in DOMAIN d \cup {k} |-> IF x = k THEN v ELSE d[x]]

None == [is_none |-> TRUE]

(***************************************************************************)
(* State.                                                                  *)
(***************************************************************************)
VARIABLES
    game_state,            \* server.game_state: None or a GameState
    ended_rounds,          \* server.ended_rounds: set of round numbers
    price_history,         \* server.price_history: commodity -> list of samples
    global_trade_counter,  \* server.global_trade_counter
    random_state,          \* the state of the process-wide random module
    mt_stream,             \* what that module's generator has been seen to yield
    response,              \* what the last request returned to its caller
    round_end_called,      \* history: /round/end was handled for the current
                           \* round of this session
    generated,             \* history: request -> the teams dicts the generator
                           \* produced for it, and whether it ran more than once
    excel_logger,          \* server.excel_logger: None or an ExcelLogger
    session_no,            \* which GameState object server.game_state names
    detached,              \* the GameState objects init_game has replaced
                           \* that a handler still holds, by number
    state_lock,            \* server.state_lock: the thread holding it, or 0
    threads,               \* worker thread -> where it is in its handler,
                           \* and the handler's local variables
    requests_begun         \* how many requests the worker threads have taken

\* What only handlers that overlap in time can change.
in_flight == <<session_no, detached, state_lock, threads, requests_begun>>

\* The worker threads the server's pool runs handlers on.
Threads == {1, 2}

\* A worker thread that is handling no request.
Idle ==
    [pc |-> "idle", ref |-> 0,
     req |-> [from_team |-> 0, to_team |-> 0, give |-> <<>>, receive |-> <<>>],
     todo |-> <<>>,
     trade |-> [round_no |-> 0, from_team |-> 0, to_team |-> 0,
                give |-> EmptyDict, receive |-> EmptyDict],
     logger |-> 0]

vars == <<game_state, ended_rounds, price_history, global_trade_counter,
          random_state, mt_stream, response, round_end_called, generated,
          excel_logger, session_no, detached, state_lock, threads,
          requests_begun>>

(***************************************************************************)
(* Prices.                                                                 *)
(***************************************************************************)
\* BASE_PRICE_RS / float(r): the double nearest to the quotient.
FloatDiv(n, r) == [num |-> n, den |-> r]

update_prices_from_ratios_Skipped(commodities, base) == commodities

update_prices_from_ratios_Swapped(commodities, base) ==
    [cname \in DOMAIN commodities |->
        LET c == commodities[cname] IN
        IF cname = base
        THEN [c EXCEPT !.base_ratio = BASE_PRICE_RS,
                       !.price = FloatDiv(1, 1)]
        ELSE LET r == IF c.base_ratio <= 0 THEN 1 ELSE c.base_ratio
             IN  [c EXCEPT !.base_ratio = r,
                           !.price = FloatDiv(BASE_PRICE_RS, r)]]

\* update_prices_from_ratios, on the commodities dict of a game whose base
\* commodity is base.
update_prices_from_ratios(commodities, base) ==
    IF base = "" THEN commodities
    ELSE [cname \in DOMAIN commodities |->
            LET c == commodities[cname] IN
            IF cname = base
            THEN [c EXCEPT !.base_ratio = 1,
                           !.price = FloatDiv(BASE_PRICE_RS, 1)]
            ELSE LET r == IF c.base_ratio <= 0 THEN 1 ELSE c.base_ratio
                 IN  [c EXCEPT !.base_ratio = r,
                               !.price = FloatDiv(BASE_PRICE_RS, r)]]

(***************************************************************************)
(* Initial portfolios: generate_initial_portfolios_with_ranges.            *)
(***************************************************************************)
\* Commodity(name, price=0.0, base_ratio=ratio): the bands are 0 until the
\* generator sets them.
Commodity(ratio) ==
    [price |-> FloatDiv(0, 1), base_ratio |-> ratio,
     min_units |-> 0, max_units |-> 0,
     alloc_min_units |-> 0, alloc_max_units |-> 0]

\* S = int(round(target_value_hint / BASE_PRICE_RS)), raised to 3 * N.
TargetBaseUnits(N, target_value_hint) ==
    LET S == RoundHalfEven(target_value_hint, BASE_PRICE_RS)
    IN  IF S < N * 3 THEN N * 3 ELSE S

\* int(units_target * factor // r) with units_target = (S / N) * r and
\* factor = pct / 100: the floor of (S / N) * pct / 100.  (The float result is
\* this floor whenever (S / N) * pct / 100 is not an integer, which holds for
\* every S and N the model's requests produce.)
BandMult(S, N, pct) == (S * pct) \div (N * 100)

ComputeBands_BandsSwapped(commodities, S) ==
    LET N == Cardinality(DOMAIN commodities) IN
    [cname \in DOMAIN commodities |->
        LET c == commodities[cname]
            r == Max(1, c.base_ratio)
            alloc_min_mult == Max(1, BandMult(S, N, 70))
            alloc_max_mult == Max(alloc_min_mult + 1, BandMult(S, N, 130))
            hold_min_mult == Max(1, BandMult(S, N, 85))
            hold_max_mult == Max(hold_min_mult + 1, BandMult(S, N, 115))
        IN  [c EXCEPT !.alloc_min_units = alloc_min_mult * r,
                      !.alloc_max_units = alloc_max_mult * r,
                      !.min_units = hold_min_mult * r,
                      !.max_units = hold_max_mult * r]]

\* Step 2: the allocation band and the holding band of every commodity.
ComputeBands(commodities, S) ==
    LET N == Cardinality(DOMAIN commodities) IN
    [cname \in DOMAIN commodities |->
        LET c == commodities[cname]
            r == Max(1, c.base_ratio)
            alloc_min_mult == Max(1, BandMult(S, N, 85))
            alloc_max_mult == Max(alloc_min_mult + 1, BandMult(S, N, 115))
            hold_min_mult == Max(1, BandMult(S, N, 70))
            hold_max_mult == Max(hold_min_mult + 1, BandMult(S, N, 130))
        IN  [c EXCEPT !.alloc_min_units = alloc_min_mult * r,
                      !.alloc_max_units = alloc_max_mult * r,
                      !.min_units = hold_min_mult * r,
                      !.max_units = hold_max_mult * r]]

\* Step 3: K_total, the base units every team receives.
K_total(commodities, S) ==
    LET names == DOMAIN commodities
        lower == SumOver([n \in names |->
                    commodities[n].alloc_min_units
                        \div Max(1, commodities[n].base_ratio)], names)
        upper == SumOver([n \in names |->
                    commodities[n].alloc_max_units
                        \div Max(1, commodities[n].base_ratio)], names)
    IN  IF S < lower THEN lower ELSE IF S > upper THEN upper ELSE S

\* Step 4: how many slots of base_unit_slots carry each commodity's name.
SlotCapacity(commodities) ==
    [cname \in DOMAIN commodities |->
        LET c == commodities[cname]
            capacity == (c.alloc_max_units - c.alloc_min_units) \div c.base_ratio
        IN  IF capacity > 0 THEN capacity ELSE 0]

\* Steps 3 and 4: K_extra, the number of slots drawn for every team.
K_extra(commodities, S) ==
    LET names == DOMAIN commodities
        lower == SumOver([n \in names |->
                    commodities[n].alloc_min_units
                        \div Max(1, commodities[n].base_ratio)], names)
        upper == SumOver([n \in names |->
                    commodities[n].alloc_max_units
                        \div Max(1, commodities[n].base_ratio)], names)
        slack_total == upper - lower
        k0 == K_total(commodities, S) - lower
        k1 == IF k0 < 0 THEN 0 ELSE k0
        k2 == IF k1 > slack_total THEN slack_total ELSE k1
    IN  IF SumOver(SlotCapacity(commodities), names) = 0 THEN 0 ELSE k2

\* random.sample(base_unit_slots, k): k distinct slots; what matters of the
\* draw is how many of the drawn slots carry each name.  The generator's
\* stream is seeded from the inputs; which of these draws it yields is left
\* open.
SamplePicks(capacity, k) ==
    LET names == DOMAIN capacity
        top == SumOver(capacity, names)
    IN  {picks \in [names -> 0..top] :
            /\ \A n \in names : picks[n] <= capacity[n]
            /\ SumOver(picks, names) = k}

\* Whether the loop body of step 5 calls random.sample.
Samples(commodities, S) ==
    /\ K_extra(commodities, S) > 0
    /\ SumOver(SlotCapacity(commodities), DOMAIN commodities)
            >= K_extra(commodities, S)

HoldingsOfPicks_OneUnit(commodities, picks) ==
    LET Clamp(n, q) ==
            IF q > commodities[n].max_units THEN commodities[n].max_units
            ELSE IF q < commodities[n].min_units THEN commodities[n].min_units
            ELSE q
    IN  [n \in DOMAIN commodities |->
            Clamp(n, commodities[n].alloc_min_units + picks[n])]

HoldingsOfPicks_FromZero(commodities, picks) ==
    LET Clamp(n, q) ==
            IF q > commodities[n].max_units THEN commodities[n].max_units
            ELSE IF q < commodities[n].min_units THEN commodities[n].min_units
            ELSE q
    IN  [n \in DOMAIN commodities |->
            Clamp(n, picks[n] * commodities[n].base_ratio)]

\* Step 5, for one team whose draw is picks: the holdings the loop body
\* leaves.
HoldingsOfPicks(commodities, picks) ==
    LET Clamp(n, q) ==
            IF q > commodities[n].max_units THEN commodities[n].max_units
            ELSE IF q < commodities[n].min_units THEN commodities[n].min_units
            ELSE q
    IN  [n \in DOMAIN commodities |->
            Clamp(n, commodities[n].alloc_min_units
                        + picks[n] * commodities[n].base_ratio)]

\* Step 5, for one team: the holdings the loop body can leave.
TeamHoldings(commodities, S) ==
    LET names == DOMAIN commodities
        draws == IF Samples(commodities, S)
                 THEN SamplePicks(SlotCapacity(commodities),
                                  K_extra(commodities, S))
                 ELSE {[n \in names |-> 0]}
    IN  {HoldingsOfPicks(commodities, picks) : picks \in draws}

(***************************************************************************)
(* The process-wide random module.  Its generator is a deterministic       *)
(* function of the seed and of the calls made since seeding; mt_stream      *)
(* holds the part of that function the run has observed.                    *)
(***************************************************************************)
\* The module as the interpreter seeds it at start-up.
OsSeeded == [seed |-> <<>>, drawn |-> 0]

\* f"{len(teams)}-{len(commodities)}-{int(target_value_hint)}"
seed_key(num_teams, N, target_value_hint) ==
    <<num_teams, N, target_value_hint>>

random_seed_NotCalled(state, key) == state

\* random.seed(key), on the module's state.
random_seed(state, key) == [seed |-> key, drawn |-> 0]

\* base_unit_slots: each name as many times as its capacity, in the order of
\* the commodities dict.
base_unit_slots(order, capacity) ==
    [i \in 1..Len(order) |-> <<order[i], capacity[order[i]]>>]

RECURSIVE Allocate(_, _, _, _, _, _)
\* The loop of step 5 from team i on: every way it can end, as the teams
\* dict with the state and the observed stream of the random module.
Allocate(commodities, S, order, n, i, acc) ==
    IF i > n THEN {acc}
    ELSE IF ~Samples(commodities, S)
    THEN Allocate(commodities, S, order, n, i + 1,
            [acc EXCEPT !.teams = Put(acc.teams, i,
                HoldingsOfPicks(commodities,
                                [c \in DOMAIN commodities |-> 0]))])
    ELSE LET capacity == SlotCapacity(commodities)
             k == K_extra(commodities, S)
             call == <<acc.random_state, base_unit_slots(order, capacity), k>>
             outcomes == IF call \in DOMAIN acc.mt_stream
                         THEN {acc.mt_stream[call]}
                         ELSE SamplePicks(capacity, k)
         IN  UNION {Allocate(commodities, S, order, n, i + 1,
                        [teams |-> Put(acc.teams, i,
                                       HoldingsOfPicks(commodities, picks)),
                         random_state |->
                            [acc.random_state EXCEPT !.drawn = @ + 1],
                         mt_stream |-> Put(acc.mt_stream, call, picks)]) :
                    picks \in outcomes}

(***************************************************************************)
(* Price history.                                                          *)
(***************************************************************************)
\* record_price_snapshot, reading the globals passed in.
record_price_snapshot(gs, history, counter) ==
    IF gs = None THEN history
    ELSE [cname \in DOMAIN history \cup DOMAIN gs.commodities |->
            IF cname \in DOMAIN gs.commodities
            THEN Append(Get(history, cname, <<>>),
                        [trade_index |-> counter,
                         round |-> gs.current_round,
                         price |-> gs.commodities[cname].price])
            ELSE history[cname]]

(***************************************************************************)
(* The Excel log: the Trades sheet of ExcelLogger.                         *)
(***************************************************************************)
\* ExcelLogger.__init__: an empty Trades sheet (below its header row) and
\* the counter the TradeID is taken from.
ExcelLogger == [trade_counter |-> 0, sheet_trades |-> <<>>]

\* next(iter(d.items())) if d else ("", 0), for a dict with keys in order.
FirstItem(order, d) ==
    IF order = <<>> THEN <<"", 0>> ELSE <<order[1], d[order[1]]>>

\* The row log_trade appends for a trade, under the TradeID trade_id.
TradeRow(trade_id, trade, give_order, receive_order) ==
    [TradeID |-> trade_id,
     Round |-> trade.round_no,
     FromTeam |-> trade.from_team,
     ToTeam |-> trade.to_team,
     Give |-> FirstItem(give_order, trade.give),
     Receive |-> FirstItem(receive_order, trade.receive)]

\* ExcelLogger.log_trade, run without interruption.
log_trade(logger, trade, give_order, receive_order) ==
    [trade_counter |-> logger.trade_counter + 1,
     sheet_trades |-> Append(logger.sheet_trades,
                        TradeRow(logger.trade_counter + 1, trade,
                                 give_order, receive_order))]

(***************************************************************************)
(* POST /admin/init_game                                                   *)
(***************************************************************************)
\* A commodity list entry of the request.
CI(name, ratio) == [name |-> name, ratio |-> ratio]

\* The requests the model submits: a valid two-commodity game whose base is
\* supplied with a ratio other than 1, and one request for each way the
\* configuration can be invalid.
InitRequests ==
    { [commodities |-> <<CI("A", 4), CI("B", 15)>>, base_commodity |-> "A",
       num_teams |-> 3, target_value_hint |-> 0],
      [commodities |-> <<CI("A", 1), CI("B", 4)>>, base_commodity |-> "A",
       num_teams |-> 0, target_value_hint |-> 0],
      [commodities |-> <<>>, base_commodity |-> "A",
       num_teams |-> 3, target_value_hint |-> 0],
      [commodities |-> <<CI("A", 1), CI("B", 0)>>, base_commodity |-> "A",
       num_teams |-> 3, target_value_hint |-> 0],
      [commodities |-> <<CI("A", 1), CI("A", 4)>>, base_commodity |-> "A",
       num_teams |-> 3, target_value_hint |-> 0],
      [commodities |-> <<CI("B", 4)>>, base_commodity |-> "A",
       num_teams |-> 3, target_value_hint |-> 0] }

InitError_NoDuplicateCheck(req) ==
    LET cs == req.commodities
    IN  IF req.num_teams <= 0 THEN "num_teams must be positive."
        ELSE IF cs = <<>> THEN "commodities list cannot be empty."
        ELSE IF \E i \in 1..Len(cs) : cs[i].ratio <= 0
        THEN "Invalid ratio. Must be positive int."
        ELSE IF req.base_commodity \notin {cs[i].name : i \in 1..Len(cs)}
        THEN "Base commodity not in commodities."
        ELSE ""

\* The detail of the HTTPException init_game raises for req, "" when it
\* raises none.
InitError(req) ==
    LET cs == req.commodities
        Bad(i) == \/ cs[i].ratio <= 0
                  \/ \E j \in 1..(i - 1) : cs[j].name = cs[i].name
    IN  IF req.num_teams <= 0 THEN "num_teams must be positive."
        ELSE IF cs = <<>> THEN "commodities list cannot be empty."
        ELSE IF \E i \in 1..Len(cs) : Bad(i)
        THEN LET i == CHOOSE k \in 1..Len(cs) :
                        Bad(k) /\ \A j \in 1..(k - 1) : ~Bad(j)
             IN  IF cs[i].ratio <= 0 THEN "Invalid ratio. Must be positive int."
                 ELSE "Duplicate commodity name"
        ELSE IF req.base_commodity \notin {cs[i].name : i \in 1..Len(cs)}
        THEN "Base commodity not in commodities."
        ELSE ""

\* The GameState objects init_game can build for a valid request, each with
\* the state and the observed stream the generator leaves the random module
\* in.
NewGames(req) ==
    LET cs == req.commodities
        names == {cs[i].name : i \in 1..Len(cs)}
        listed == [n \in names |->
                    Commodity(cs[CHOOSE i \in 1..Len(cs) : cs[i].name = n].ratio)]
        based == [listed EXCEPT ![req.base_commodity].base_ratio = 1]
        priced == update_prices_from_ratios(based, req.base_commodity)
        S == TargetBaseUnits(Cardinality(names), req.target_value_hint)
        banded == ComputeBands(priced, S)
        seeded == random_seed(random_state,
                    seed_key(req.num_teams, Cardinality(names),
                             req.target_value_hint))
        order == [i \in 1..Len(cs) |-> cs[i].name]
    IN  {[game |-> [commodities |-> banded,
                    teams |-> out.teams,
                    base_commodity |-> req.base_commodity,
                    trades |-> <<>>,
                    rounds |-> <<>>,
                    current_round |-> 0,
                    penalties_rs |-> EmptyDict,
                    round_open_ratios |-> EmptyDict],
          random_state |-> out.random_state,
          mt_stream |-> out.mt_stream] :
         out \in Allocate(banded, S, order, req.num_teams, 1,
                    [teams |-> EmptyDict, random_state |-> seeded,
                     mt_stream |-> mt_stream])}

\* What the generator returns: K_total * BASE_PRICE_RS.
CommonValue(gs, req) ==
    K_total(gs.commodities,
            TargetBaseUnits(Cardinality(DOMAIN gs.commodities),
                            req.target_value_hint)) * BASE_PRICE_RS

Response(op, ok, detail, info) ==
    [op |-> op, ok |-> ok, detail |-> detail, info |-> info]

InitGame(req) ==
    IF InitError(req) # ""
    THEN /\ response' = Response("init_game", FALSE, InitError(req), <<>>)
         /\ UNCHANGED <<game_state, ended_rounds, price_history,
                        global_trade_counter, random_state, mt_stream,
                        round_end_called, generated, excel_logger>>
         /\ UNCHANGED in_flight
    ELSE \E new \in NewGames(req) :
         LET gs == new.game IN
         /\ game_state' = gs
         /\ excel_logger' = ExcelLogger
         /\ UNCHANGED in_flight
         /\ random_state' = new.random_state
         /\ mt_stream' = new.mt_stream
         /\ price_history' =
                record_price_snapshot(gs,
                    [cname \in DOMAIN gs.commodities |-> <<>>], 0)
         /\ global_trade_counter' = 0
         /\ response' = Response("init_game", TRUE, "Game initialized.",
                                 <<CommonValue(gs, req)>>)
         /\ round_end_called' = FALSE
         /\ generated' = Put(generated, req,
                [outcomes |-> IF req \in DOMAIN generated
                              THEN generated[req].outcomes \cup {gs.teams}
                              ELSE {gs.teams},
                 repeated |-> req \in DOMAIN generated])
         /\ UNCHANGED ended_rounds

(***************************************************************************)
(* POST /round/start                                                       *)
(***************************************************************************)
NotInitialized == "Game is not initialized. Call /admin/init_game first."

start_round_KeepSnapshot(gs) ==
    [gs EXCEPT !.current_round = gs.current_round + 1,
               !.rounds = Append(gs.rounds, gs.current_round + 1),
               !.round_open_ratios =
                    IF gs.round_open_ratios # EmptyDict
                    THEN gs.round_open_ratios
                    ELSE [cname \in DOMAIN gs.commodities |->
                            gs.commodities[cname].base_ratio]]

start_round_NoRoundInfo(gs) ==
    [gs EXCEPT !.current_round = gs.current_round + 1,
               !.round_open_ratios =
                    [cname \in DOMAIN gs.commodities |->
                        gs.commodities[cname].base_ratio]]

\* GameState.start_round.
start_round(gs) ==
    [gs EXCEPT !.current_round = gs.current_round + 1,
               !.rounds = Append(gs.rounds, gs.current_round + 1),
               !.round_open_ratios =
                    [cname \in DOMAIN gs.commodities |->
                        gs.commodities[cname].base_ratio]]

StartRound ==
    IF game_state = None
    THEN /\ response' = Response("start_round", FALSE, NotInitialized, <<>>)
         /\ UNCHANGED <<game_state, ended_rounds, price_history,
                        global_trade_counter, random_state, mt_stream,
                        round_end_called, generated, excel_logger>>
         /\ UNCHANGED in_flight
    ELSE /\ game_state.current_round < MaxRound
         /\ UNCHANGED <<excel_logger, session_no, detached, state_lock,
                        threads, requests_begun>>
         /\ game_state' = start_round(game_state)
         /\ response' = Response("start_round", TRUE, "Round started.",
                                 <<game_state.current_round + 1>>)
         /\ round_end_called' = FALSE
         /\ UNCHANGED <<ended_rounds, price_history, global_trade_counter,
                        random_state, mt_stream, generated>>

(***************************************************************************)
(* Trades: apply_trade and GameState.record_trade.                         *)
(***************************************************************************)
\* An error raised by the engine; kind "" is no error.
NoError == [kind |-> "", info |-> <<>>]
Error(kind, info) == [kind |-> kind, info |-> info]

\* Lines 384-385 (and 393-394): payer loses qty of cname, then payee gains it.
\* The second assignment reads the holdings the first one left, which matters
\* when payer and payee are the same team.
Transfer_NoCredit(teams, payer, payee, cname, qty) ==
    [teams EXCEPT ![payer] = Put(@, cname, Get(@, cname, 0) - qty)]

Transfer_FromSnapshot(teams, payer, payee, cname, qty) ==
    [t \in DOMAIN teams |->
        IF t = payee THEN Put(teams[t], cname, Get(teams[t], cname, 0) + qty)
        ELSE IF t = payer
        THEN Put(teams[t], cname, Get(teams[t], cname, 0) - qty)
        ELSE teams[t]]

Transfer(teams, payer, payee, cname, qty) ==
    LET paid == [teams EXCEPT ![payer] = Put(@, cname, Get(@, cname, 0) - qty)]
    IN  [paid EXCEPT ![payee] = Put(@, cname, Get(@, cname, 0) + qty)]

RECURSIVE TransferLegs_NoHoldingsCheck(_, _, _, _, _, _)
TransferLegs_NoHoldingsCheck(teams, payer, payee, order, legs, i) ==
    IF i > Len(order) THEN [teams |-> teams, error |-> NoError]
    ELSE LET cname == order[i]
             qty == legs[cname]
         IN  IF qty < 0
             THEN [teams |-> teams,
                   error |-> Error("negative quantity", <<>>)]
             ELSE TransferLegs_NoHoldingsCheck(
                      Transfer(teams, payer, payee, cname, qty),
                      payer, payee, order, legs, i + 1)

RECURSIVE TransferLegs(_, _, _, _, _, _)
\* One of the two loops of apply_trade, from its i-th dict entry on: payer
\* surrenders what the dict names, payee gains it.  order lists the dict's
\* keys in insertion order.  Every assignment made before a raise stays.
TransferLegs(teams, payer, payee, order, legs, i) ==
    IF i > Len(order) THEN [teams |-> teams, error |-> NoError]
    ELSE LET cname == order[i]
             qty == legs[cname]
         IN  IF qty < 0
             THEN [teams |-> teams,
                   error |-> Error("negative quantity", <<>>)]
             ELSE IF Get(teams[payer], cname, 0) < qty
             THEN [teams |-> teams,
                   error |-> Error("insufficient holdings", <<payer, cname>>)]
             ELSE TransferLegs(Transfer(teams, payer, payee, cname, qty),
                               payer, payee, order, legs, i + 1)

\* apply_trade: the give loop, then the receive loop.
apply_trade(teams, from_team, to_team, give_order, give, receive_order, receive) ==
    IF from_team \notin DOMAIN teams
    THEN [teams |-> teams, error |-> Error("KeyError", <<from_team>>)]
    ELSE IF to_team \notin DOMAIN teams
    THEN [teams |-> teams, error |-> Error("KeyError", <<to_team>>)]
    ELSE LET given == TransferLegs(teams, from_team, to_team,
                                   give_order, give, 1)
         IN  IF given.error # NoError THEN given
             ELSE TransferLegs(given.teams, to_team, from_team,
                               receive_order, receive, 1)

PairAlreadyTraded_Ordered(gs, from_team, to_team) ==
    \E i \in 1..Len(gs.trades) :
        /\ gs.trades[i].round_no = gs.current_round
        /\ gs.trades[i].from_team = from_team
        /\ gs.trades[i].to_team = to_team

PairAlreadyTraded_AnyRound(gs, from_team, to_team) ==
    \E i \in 1..Len(gs.trades) :
        {gs.trades[i].from_team, gs.trades[i].to_team} = {from_team, to_team}

\* The duplicate-pair test of record_trade (lines 151-160).
PairAlreadyTraded(gs, from_team, to_team) ==
    \E i \in 1..Len(gs.trades) :
        /\ gs.trades[i].round_no = gs.current_round
        /\ {gs.trades[i].from_team, gs.trades[i].to_team} = {from_team, to_team}

record_trade_NoRoundCheck(gs, from_team, to_team, give_order, give, receive_order, receive) ==
    IF PairAlreadyTraded(gs, from_team, to_team)
    THEN [gs |-> gs,
          error |-> Error("duplicate pair",
                          <<from_team, to_team, gs.current_round>>)]
    ELSE LET applied == apply_trade(gs.teams, from_team, to_team,
                                    give_order, give, receive_order, receive)
             trade == [round_no |-> gs.current_round,
                       from_team |-> from_team,
                       to_team |-> to_team,
                       give |-> give,
                       receive |-> receive]
         IN  IF applied.error # NoError
             THEN [gs |-> [gs EXCEPT !.teams = applied.teams],
                   error |-> applied.error]
             ELSE [gs |-> [gs EXCEPT !.teams = applied.teams,
                                     !.trades = Append(gs.trades, trade)],
                   error |-> NoError]

\* GameState.record_trade: the game state it leaves and the error it raises.
record_trade(gs, from_team, to_team, give_order, give, receive_order, receive) ==
    IF gs.current_round = 0
    THEN [gs |-> gs, error |-> Error("no active round", <<>>)]
    ELSE IF PairAlreadyTraded(gs, from_team, to_team)
    THEN [gs |-> gs,
          error |-> Error("duplicate pair",
                          <<from_team, to_team, gs.current_round>>)]
    ELSE LET applied == apply_trade(gs.teams, from_team, to_team,
                                    give_order, give, receive_order, receive)
             trade == [round_no |-> gs.current_round,
                       from_team |-> from_team,
                       to_team |-> to_team,
                       give |-> give,
                       receive |-> receive]
         IN  IF applied.error # NoError
             THEN [gs |-> [gs EXCEPT !.teams = applied.teams],
                   error |-> applied.error]
             ELSE [gs |-> [gs EXCEPT !.teams = applied.teams,
                                     !.trades = Append(gs.trades, trade)],
                   error |-> NoError]

(***************************************************************************)
(* Ratios: compute_net_demand and update_ratios_auto.                      *)
(***************************************************************************)
\* Default arguments of update_ratios_auto, as fractions.
Sensitivity == [num |-> 1, den |-> 2]
CircuitPct == [num |-> 1, den |-> 5]

RECURSIVE NetOfTrades(_, _, _, _)
\* The net demand for cname over trades[i..], counting round round_no only.
NetOfTrades(trades, round_no, cname, i) ==
    IF i > Len(trades) THEN 0
    ELSE (IF trades[i].round_no = round_no
          THEN Get(trades[i].receive, cname, 0) - Get(trades[i].give, cname, 0)
          ELSE 0)
         + NetOfTrades(trades, round_no, cname, i + 1)

\* compute_net_demand.  (A journaled trade names only commodities of the game:
\* a leg in any other name is rejected for insufficient holdings.)
compute_net_demand(gs, round_no) ==
    [cname \in DOMAIN gs.commodities |->
        NetOfTrades(gs.trades, round_no, cname, 1)]

CircuitLower_NoComplement(open_ratio, pct) ==
    Max(1, RoundHalfEven(open_ratio * pct.num, pct.den))

\* Lower and upper clamp of the circuit breaker for a round-open ratio.
CircuitLower(open_ratio, pct) ==
    Max(1, RoundHalfEven(open_ratio * (pct.den - pct.num), pct.den))
CircuitUpper(open_ratio, pct) ==
    Max(CircuitLower(open_ratio, pct) + 1,
        RoundHalfEven(open_ratio * (pct.den + pct.num), pct.den))

NewRatios_NoClamp(gs, cname, net, total_abs, sensitivity, circuit_pct) ==
    LET old_ratio == Max(1, gs.commodities[cname].base_ratio)
        fnum == sensitivity.den * total_abs - sensitivity.num * net[cname]
        fden == sensitivity.den * total_abs
        rounded == IF fnum <= 0
                   THEN RoundOfComputed(old_ratio, 10)
                   ELSE RoundOfComputed(old_ratio * fnum, fden)
    IN  {IF p < 1 THEN 1 ELSE p : p \in rounded}

NewRatios_Reversed(gs, cname, net, total_abs, sensitivity, circuit_pct) ==
    LET old_ratio == Max(1, gs.commodities[cname].base_ratio)
        fnum == sensitivity.den * total_abs + sensitivity.num * net[cname]
        fden == sensitivity.den * total_abs
        rounded == IF fnum <= 0
                   THEN RoundOfComputed(old_ratio, 10)
                   ELSE RoundOfComputed(old_ratio * fnum, fden)
        open0 == Get(gs.round_open_ratios, cname, old_ratio)
        open_ratio == IF open0 < 1 THEN 1 ELSE open0
        lower == CircuitLower(open_ratio, circuit_pct)
        upper == CircuitUpper(open_ratio, circuit_pct)
    IN  {Min(Max(IF p < 1 THEN 1 ELSE p, lower), upper) : p \in rounded}

NewRatios_FromOpen(gs, cname, net, total_abs, sensitivity, circuit_pct) ==
    LET old_ratio == Max(1, Get(gs.round_open_ratios, cname,
                                gs.commodities[cname].base_ratio))
        fnum == sensitivity.den * total_abs - sensitivity.num * net[cname]
        fden == sensitivity.den * total_abs
        rounded == IF fnum <= 0
                   THEN RoundOfComputed(old_ratio, 10)
                   ELSE RoundOfComputed(old_ratio * fnum, fden)
        open0 == Get(gs.round_open_ratios, cname, old_ratio)
        open_ratio == IF open0 < 1 THEN 1 ELSE open0
        lower == CircuitLower(open_ratio, circuit_pct)
        upper == CircuitUpper(open_ratio, circuit_pct)
    IN  {Min(Max(IF p < 1 THEN 1 ELSE p, lower), upper) : p \in rounded}

\* The values the loop body of update_ratios_auto can assign to the ratio of
\* the non-base commodity cname.
NewRatios(gs, cname, net, total_abs, sensitivity, circuit_pct) ==
    LET old_ratio == Max(1, gs.commodities[cname].base_ratio)
        \* factor = 1.0 - sensitivity * delta, delta = net[cname] / total_abs
        fnum == sensitivity.den * total_abs - sensitivity.num * net[cname]
        fden == sensitivity.den * total_abs
        rounded == IF fnum <= 0
                   THEN RoundOfComputed(old_ratio, 10)
                   ELSE RoundOfComputed(old_ratio * fnum, fden)
        open0 == Get(gs.round_open_ratios, cname, old_ratio)
        open_ratio == IF open0 < 1 THEN 1 ELSE open0
        lower == CircuitLower(open_ratio, circuit_pct)
        upper == CircuitUpper(open_ratio, circuit_pct)
    IN  {Min(Max(IF p < 1 THEN 1 ELSE p, lower), upper) : p \in rounded}

\* update_ratios_auto: the commodities dicts it can leave.
update_ratios_auto(gs, sensitivity, circuit_pct) ==
    IF gs.current_round = 0 THEN {gs.commodities}
    ELSE LET names == DOMAIN gs.commodities
             net == compute_net_demand(gs, gs.current_round)
             sum_abs == SumOver([n \in names |-> Abs(net[n])], names)
             total_abs == IF sum_abs = 0 THEN 1 ELSE sum_abs
             Choices(n) == IF n = gs.base_commodity THEN {1}
                           ELSE NewRatios(gs, n, net, total_abs,
                                          sensitivity, circuit_pct)
         IN  {[n \in names |->
                [gs.commodities[n] EXCEPT !.base_ratio = ratios[n]]] :
              ratios \in {f \in [names -> UNION {Choices(n) : n \in names}] :
                            \A n \in names : f[n] \in Choices(n)}}

(***************************************************************************)
(* POST /trade                                                             *)
(***************************************************************************)
Leg(commodity, qty) == [commodity |-> commodity, qty |-> qty]

TradeRequest(from_team, to_team, give, receive) ==
    [from_team |-> from_team, to_team |-> to_team,
     give |-> give, receive |-> receive]

\* The requests the model submits.  A team starts with 3 units of the base
\* commodity A and 45 of B, so a second surrender of 2 A or of 30 B falls short.
TradeRequests ==
    { \* a swap
      TradeRequest(1, 2, <<Leg("A", 2)>>, <<Leg("B", 30)>>),
      \* the same pair the other way round, the flow of B reversed
      TradeRequest(2, 1, <<Leg("B", 30)>>, <<Leg("A", 2)>>),
      \* a third team; one commodity both ways
      TradeRequest(3, 1, <<Leg("A", 2)>>, <<Leg("A", 2)>>),
      \* several give legs, one commodity repeated
      TradeRequest(1, 3, <<Leg("B", 15), Leg("A", 2), Leg("B", 15)>>, <<>>),
      \* a team with itself
      TradeRequest(1, 1, <<Leg("A", 2)>>, <<Leg("B", 30)>>),
      \* Team 0: a name no game has
      TradeRequest(0, 1, <<Leg("A", 2)>>, <<Leg("B", 30)>>),
      \* a quantity the server refuses
      TradeRequest(1, 2, <<Leg("A", 2)>>, <<Leg("B", 0)>>) }

\* Lines 421-431: every leg of a list has a positive quantity.
LegsPositive(legs) == \A i \in 1..Len(legs) : legs[i].qty > 0

\* Lines 421-431: the dict built from a leg list, repeated commodities summed.
BuildDict(legs) ==
    [cname \in {legs[i].commodity : i \in 1..Len(legs)} |->
        SumOver([i \in 1..Len(legs) |->
                    IF legs[i].commodity = cname THEN legs[i].qty ELSE 0],
                1..Len(legs))]

RECURSIVE KeyOrder(_, _)
\* The keys of that dict in insertion order, from leg i on.
KeyOrder(legs, i) ==
    IF i > Len(legs) THEN <<>>
    ELSE IF \E j \in 1..(i - 1) : legs[j].commodity = legs[i].commodity
    THEN KeyOrder(legs, i + 1)
    ELSE <<legs[i].commodity>> \o KeyOrder(legs, i + 1)

PostTrade(req) ==
    /\ UNCHANGED <<random_state, mt_stream, round_end_called, generated>>
    /\ UNCHANGED in_flight
    /\ IF game_state = None
       THEN /\ response' = Response("trade", FALSE, NotInitialized, <<>>)
            /\ UNCHANGED <<game_state, ended_rounds, price_history,
                           global_trade_counter, excel_logger>>
       ELSE IF ~(LegsPositive(req.give) /\ LegsPositive(req.receive))
       THEN /\ response' = Response("trade", FALSE,
                                    "Quantities must be positive.", <<>>)
            /\ UNCHANGED <<game_state, ended_rounds, price_history,
                           global_trade_counter, excel_logger>>
       ELSE LET recorded == record_trade(game_state,
                                req.from_team, req.to_team,
                                KeyOrder(req.give, 1), BuildDict(req.give),
                                KeyOrder(req.receive, 1), BuildDict(req.receive))
            IN  IF recorded.error # NoError
                THEN /\ game_state' = recorded.gs
                     /\ response' = Response("trade", FALSE,
                                             recorded.error.kind, <<>>)
                     /\ UNCHANGED <<ended_rounds, price_history,
                                    global_trade_counter, excel_logger>>
                ELSE /\ Len(game_state.trades) < MaxTrades
                     /\ excel_logger' =
                            IF excel_logger = None THEN None
                            ELSE log_trade(excel_logger,
                                    recorded.gs.trades[Len(recorded.gs.trades)],
                                    KeyOrder(req.give, 1),
                                    KeyOrder(req.receive, 1))
                     /\ \E updated \in update_ratios_auto(recorded.gs,
                                            Sensitivity, CircuitPct) :
                        LET gs == [recorded.gs EXCEPT !.commodities =
                                    update_prices_from_ratios(updated,
                                        recorded.gs.base_commodity)]
                        IN  /\ game_state' = gs
                            /\ global_trade_counter' = global_trade_counter + 1
                            /\ price_history' =
                                record_price_snapshot(gs, price_history,
                                    global_trade_counter + 1)
                            /\ response' = Response("trade", TRUE, "ok",
                                    <<gs.current_round, req.from_team,
                                      req.to_team, BuildDict(req.give),
                                      BuildDict(req.receive)>>)
                     /\ UNCHANGED ended_rounds

(***************************************************************************)
(* Penalties and POST /round/end                                           *)
(***************************************************************************)
\* Team.value_rs, as an exact fraction.
value_rs(holdings, commodities) ==
    LET names == DOMAIN commodities
        RECURSIVE Total(_)
        Total(S) ==
            IF S = {} THEN FracZero
            ELSE LET n == CHOOSE x \in S : TRUE
                 IN  FracAdd(FracScale(Get(holdings, n, 0), commodities[n].price),
                             Total(S \ {n}))
    IN  Total(names)

teams_with_trades_in_round_FromOnly(gs, round_no) ==
    {gs.trades[i].from_team :
        i \in {j \in 1..Len(gs.trades) : gs.trades[j].round_no = round_no}}

teams_with_trades_in_round_AnyRound(gs, round_no) ==
    UNION {{gs.trades[i].from_team, gs.trades[i].to_team} :
            i \in 1..Len(gs.trades)}

\* teams_with_trades_in_round.
teams_with_trades_in_round(gs, round_no) ==
    UNION {{gs.trades[i].from_team, gs.trades[i].to_team} :
            i \in {j \in 1..Len(gs.trades) : gs.trades[j].round_no = round_no}}

check_min_max_violation_ZeroIsBound(gs, holdings) ==
    \E cname \in DOMAIN gs.commodities :
        LET c == gs.commodities[cname]
            qty == Get(holdings, cname, 0)
        IN  qty < c.min_units \/ qty > c.max_units

\* check_min_max_violation.
check_min_max_violation(gs, holdings) ==
    \E cname \in DOMAIN gs.commodities :
        LET c == gs.commodities[cname]
            qty == Get(holdings, cname, 0)
        IN  \/ c.min_units # 0 /\ qty < c.min_units
            \/ c.max_units # 0 /\ qty > c.max_units

\* value * rate for the two default rates of 0.10.
PenaltyOf(value) == Frac(value.num, value.den * 10)

apply_round_penalties_Exclusive(gs, round_no) ==
    LET active == teams_with_trades_in_round(gs, round_no)
        Charged(tname) ==
            \/ tname \notin active
            \/ check_min_max_violation(gs, gs.teams[tname])
        After(tname) ==
            FracAdd(Get(gs.penalties_rs, tname, FracZero),
                    PenaltyOf(value_rs(gs.teams[tname], gs.commodities)))
    IN  [tname \in DOMAIN gs.penalties_rs
                   \cup {t \in DOMAIN gs.teams : Charged(t)} |->
            IF tname \in DOMAIN gs.teams /\ Charged(tname)
            THEN After(tname) ELSE gs.penalties_rs[tname]]

apply_round_penalties_Overwrite(gs, round_no) ==
    LET active == teams_with_trades_in_round(gs, round_no)
        Charged(tname) ==
            \/ tname \notin active
            \/ check_min_max_violation(gs, gs.teams[tname])
    IN  [tname \in DOMAIN gs.penalties_rs
                   \cup {t \in DOMAIN gs.teams : Charged(t)} |->
            IF tname \in DOMAIN gs.teams /\ Charged(tname)
            THEN PenaltyOf(value_rs(gs.teams[tname], gs.commodities))
            ELSE gs.penalties_rs[tname]]

\* apply_round_penalties: the penalties dict it leaves.
apply_round_penalties(gs, round_no) ==
    LET active == teams_with_trades_in_round(gs, round_no)
        Charged(tname) ==
            \/ tname \notin active
            \/ check_min_max_violation(gs, gs.teams[tname])
        After(tname) ==
            LET value == value_rs(gs.teams[tname], gs.commodities)
                before == Get(gs.penalties_rs, tname, FracZero)
                first == IF tname \notin active
                         THEN FracAdd(before, PenaltyOf(value)) ELSE before
            IN  IF check_min_max_violation(gs, gs.teams[tname])
                THEN FracAdd(first, PenaltyOf(value)) ELSE first
    IN  [tname \in DOMAIN gs.penalties_rs
                   \cup {t \in DOMAIN gs.teams : Charged(t)} |->
            IF tname \in DOMAIN gs.teams /\ Charged(tname)
            THEN After(tname) ELSE gs.penalties_rs[tname]]

EndRound ==
    IF game_state = None
    THEN /\ response' = Response("end_round", FALSE, NotInitialized, <<>>)
         /\ UNCHANGED <<excel_logger, session_no, detached, state_lock,
                        threads, requests_begun>>
         /\ UNCHANGED <<game_state, ended_rounds, price_history,
                        global_trade_counter, random_state, mt_stream,
                        round_end_called, generated>>
    ELSE IF game_state.current_round = 0
    THEN /\ response' = Response("end_round", FALSE, "No active round.", <<>>)
         /\ UNCHANGED <<excel_logger, session_no, detached, state_lock,
                        threads, requests_begun>>
         /\ UNCHANGED <<game_state, ended_rounds, price_history,
                        global_trade_counter, random_state, mt_stream,
                        round_end_called, generated>>
    ELSE IF game_state.current_round \in ended_rounds
    THEN /\ response' = Response("end_round", TRUE, "already ended",
                                 <<game_state.current_round>>)
         /\ round_end_called' = TRUE
         /\ UNCHANGED <<excel_logger, session_no, detached, state_lock,
                        threads, requests_begun>>
         /\ UNCHANGED <<game_state, ended_rounds, price_history,
                        global_trade_counter, random_state, mt_stream,
                        generated>>
    ELSE /\ game_state' =
            [game_state EXCEPT !.penalties_rs =
                apply_round_penalties(game_state, game_state.current_round)]
         /\ ended_rounds' = ended_rounds \cup {game_state.current_round}
         /\ response' = Response("end_round", TRUE, "Round ended.",
                                 <<game_state.current_round>>)
         /\ round_end_called' = TRUE
         /\ UNCHANGED <<excel_logger, session_no, detached, state_lock,
                        threads, requests_begun>>
         /\ UNCHANGED <<price_history, global_trade_counter, random_state,
                        mt_stream, generated>>

(***************************************************************************)
(* The server: requests are handled one at a time.                         *)
(***************************************************************************)
Init ==
    /\ game_state = None
    /\ ended_rounds = {}
    /\ price_history = EmptyDict
    /\ global_trade_counter = 0
    /\ random_state = OsSeeded
    /\ mt_stream = EmptyDict
    /\ response = Response("none", TRUE, "", <<>>)
    /\ round_end_called = FALSE
    /\ generated = EmptyDict
    /\ excel_logger = None
    /\ session_no = 0
    /\ detached = EmptyDict
    /\ state_lock = 0
    /\ threads = [t \in Threads |-> Idle]
    /\ requests_begun = 0

Next ==
    \/ \E req \in InitRequests : InitGame(req)
    \/ StartRound
    \/ \E req \in TradeRequests : PostTrade(req)
    \/ EndRound

Spec == Init /\ [][Next]_vars

(***************************************************************************)
(* The portfolio generator on a wider set of configurations, in a process  *)
(* where other code draws from the random module as well.                   *)
(***************************************************************************)
\* Two configurations that share a seed key and draw at random; one that
\* draws nothing at random and supplies a base ratio other than 1; two of
\* three commodities, the second with a target above what the allocation
\* bands can hold.
GenRequests ==
    { [commodities |-> <<CI("A", 1), CI("B", 3)>>, base_commodity |-> "A",
       num_teams |-> 2, target_value_hint |-> 7000],
      [commodities |-> <<CI("A", 1), CI("B", 2)>>, base_commodity |-> "A",
       num_teams |-> 2, target_value_hint |-> 7000],
      [commodities |-> <<CI("A", 4), CI("B", 3)>>, base_commodity |-> "A",
       num_teams |-> 1, target_value_hint |-> 0],
      [commodities |-> <<CI("A", 1), CI("B", 2), CI("C", 5)>>,
       base_commodity |-> "A", num_teams |-> 2, target_value_hint |-> 11000],
      [commodities |-> <<CI("A", 1), CI("B", 2), CI("C", 5)>>,
       base_commodity |-> "A", num_teams |-> 1, target_value_hint |-> 10000] }

\* Some other code of the process draws from the random module.
ConsumeRandom ==
    /\ random_state.drawn < MaxDraws
    /\ random_state' = [random_state EXCEPT !.drawn = @ + 1]
    /\ UNCHANGED <<game_state, ended_rounds, price_history,
                   global_trade_counter, mt_stream, response,
                   round_end_called, generated, excel_logger>>
    /\ UNCHANGED in_flight

NextGen ==
    \/ \E req \in GenRequests : InitGame(req)
    \/ ConsumeRandom

SpecGen == Init /\ [][NextGen]_vars

(***************************************************************************)
(* The penalty functions on game states an engine caller can build: bands   *)
(* the generator never set (0: no bound), holdings without an entry for a   *)
(* commodity.  Round 1 is open; the rounds are then ended and started.      *)
(***************************************************************************)
\* Commodity(name, price, base_ratio, min_units, max_units).
BandedCommodity(ratio, min_units, max_units) ==
    [price |-> FloatDiv(BASE_PRICE_RS, ratio), base_ratio |-> ratio,
     min_units |-> min_units, max_units |-> max_units,
     alloc_min_units |-> 0, alloc_max_units |-> 0]

PenaltyGames ==
    {[commodities |-> [A |-> BandedCommodity(1, a[1], a[2]),
                       B |-> BandedCommodity(4, b[1], b[2])],
      teams |-> <<h, [A |-> 3, B |-> 12]>>,
      base_commodity |-> "A",
      trades |-> trades,
      rounds |-> <<1>>,
      current_round |-> 1,
      penalties_rs |-> EmptyDict,
      round_open_ratios |-> [A |-> 1, B |-> 4]] :
     a \in {<<0, 0>>, <<2, 3>>, <<0, 3>>, <<2, 0>>},
     b \in {<<0, 0>>, <<8, 12>>},
     h \in {[A |-> 3, B |-> 12], [A |-> 1, B |-> 12], [A |-> 4, B |-> 12],
            [B |-> 12], [A |-> 1, B |-> 16], [A |-> 3, B |-> 0]},
     trades \in {<<>>,
                 <<[round_no |-> 1, from_team |-> 1, to_team |-> 2,
                    give |-> [A |-> 1], receive |-> [B |-> 4]]>>}}

InitPenalties ==
    /\ game_state \in PenaltyGames
    /\ ended_rounds = {}
    /\ price_history = EmptyDict
    /\ global_trade_counter = 0
    /\ random_state = OsSeeded
    /\ mt_stream = EmptyDict
    /\ response = Response("none", TRUE, "", <<>>)
    /\ round_end_called = FALSE
    /\ generated = EmptyDict
    /\ excel_logger = None
    /\ session_no = 0
    /\ detached = EmptyDict
    /\ state_lock = 0
    /\ threads = [t \in Threads |-> Idle]
    /\ requests_begun = 0

NextPenalties ==
    \/ EndRound
    \/ StartRound

SpecPenalties == InitPenalties /\ [][NextPenalties]_vars

(***************************************************************************)
(* GET /state/leaderboard                                                  *)
(***************************************************************************)
\* a - b on fractions.
FracSub(a, b) == FracAdd(a, FracScale(0 - 1, b))

\* effective_value of GameState.leaderboard: raw value less the accumulated
\* penalty.
effective_value(gs, tname) ==
    FracSub(value_rs(gs.teams[tname], gs.commodities),
            Get(gs.penalties_rs, tname, FracZero))

RECURSIVE SortedDescending(_, _, _)
\* sorted(items, key=key, reverse=True) from item i on, placed into acc:
\* descending by key, items with equal keys in their original order.
SortedDescending(items, key, acc) ==
    IF items = <<>> THEN acc
    ELSE LET x == Head(items)
             \* x goes behind every item whose key is not below its own
             ahead == {j \in 1..Len(acc) : FracLeq(key[x], key[acc[j]])}
             at == IF ahead = {} THEN 0
                   ELSE CHOOSE j \in ahead : \A k \in ahead : k <= j
         IN  SortedDescending(Tail(items), key,
                SubSeq(acc, 1, at) \o <<x>> \o SubSeq(acc, at + 1, Len(acc)))

leaderboard_Ascending(gs) ==
    LET names == [i \in 1..Len(gs.teams) |-> i]
        key == [t \in DOMAIN gs.teams |->
                    FracScale(0 - 1, effective_value(gs, t))]
    IN  SortedDescending(names, key, <<>>)

\* GameState.leaderboard: the team names in the order it returns the teams.
leaderboard(gs) ==
    LET names == [i \in 1..Len(gs.teams) |-> i]
        key == [t \in DOMAIN gs.teams |-> effective_value(gs, t)]
    IN  SortedDescending(names, key, <<>>)

\* get_leaderboard: one entry for every team leaderboard() returns.
GetLeaderboard ==
    /\ UNCHANGED <<game_state, ended_rounds, price_history,
                   global_trade_counter, random_state, mt_stream,
                   round_end_called, generated, excel_logger>>
    /\ UNCHANGED in_flight
    /\ IF game_state = None
       THEN response' = Response("leaderboard", FALSE, NotInitialized, <<>>)
       ELSE LET leaders == leaderboard(game_state)
            IN  response' = Response("leaderboard", TRUE, "",
                    [i \in 1..Len(leaders) |->
                        [name |-> leaders[i],
                         value_rs |-> value_rs(game_state.teams[leaders[i]],
                                               game_state.commodities),
                         penalty_rs |-> Get(game_state.penalties_rs,
                                            leaders[i], FracZero),
                         effective_value_rs |->
                            effective_value(game_state, leaders[i])]])

\* The server with the leaderboard queried between the requests.
NextReads ==
    \/ Next
    \/ GetLeaderboard

SpecReads == Init /\ [][NextReads]_vars

(***************************************************************************)
(* The server as it is deployed: every handler runs on a worker thread of  *)
(* the pool, so handlers overlap.  A handler reads the global game_state    *)
(* into its local gs before it takes state_lock (init_game takes the lock   *)
(* first); what it does while it holds the lock is one step for each        *)
(* statement whose effect another thread can see; the GET handlers take no  *)
(* lock.  Trade is logged to Excel after the lock is released.              *)
(***************************************************************************)
\* The one valid configuration of InitRequests.
ConcInit == CHOOSE req \in InitRequests : InitError(req) = ""

\* The trades submitted: two different pairs, both affordable from the
\* initial holdings.
ConcTrades ==
    { TradeRequest(1, 2, <<Leg("A", 2)>>, <<Leg("B", 30)>>),
      TradeRequest(3, 1, <<Leg("A", 2)>>, <<Leg("A", 2)>>) }

\* The GameState object a handler's local gs names.
Deref(ref) == IF ref = session_no THEN game_state ELSE detached[ref]

\* The replaced objects still held once thread t has returned, out of d.
StillHeld(d, t) ==
    [r \in {x \in DOMAIN d :
                \E u \in Threads \ {t} :
                    threads[u].pc # "idle" /\ threads[u].ref = x} |-> d[r]]

\* Thread t writes object v through its local gs.
Store(t, v) ==
    /\ game_state' = IF threads[t].ref = session_no THEN v ELSE game_state
    /\ detached' = IF threads[t].ref = session_no THEN detached
                   ELSE Put(detached, threads[t].ref, v)

\* Thread t writes object v through its local gs and returns.
StoreAndReturn(t, v) ==
    /\ game_state' = IF threads[t].ref = session_no THEN v ELSE game_state
    /\ detached' = IF threads[t].ref = session_no THEN StillHeld(detached, t)
                   ELSE StillHeld(Put(detached, threads[t].ref, v), t)

\* Thread t takes a request; the handler returns at once.
Refused(t, op, detail) ==
    /\ response' = Response(op, FALSE, detail, <<>>)
    /\ requests_begun' = requests_begun + 1
    /\ UNCHANGED <<game_state, ended_rounds, price_history,
                   global_trade_counter, random_state, mt_stream,
                   round_end_called, generated, excel_logger, session_no,
                   detached, state_lock, threads>>

\* Thread t takes a request and goes on to pc with gs = game_state.
Taken(t, pc, req) ==
    /\ threads' = [threads EXCEPT ![t] =
                    [Idle EXCEPT !.pc = pc, !.ref = session_no, !.req = req]]
    /\ requests_begun' = requests_begun + 1
    /\ UNCHANGED <<game_state, ended_rounds, price_history,
                   global_trade_counter, random_state, mt_stream, response,
                   round_end_called, generated, excel_logger, session_no,
                   detached, state_lock>>

CanBegin(t) == threads[t].pc = "idle" /\ requests_begun < MaxRequests

\* init_game up to `with state_lock`.
BeginInit(t) ==
    /\ CanBegin(t)
    /\ Taken(t, "init", Idle.req)

\* init_game from `with state_lock` to `game_state = gs`.
InitEnter(t) ==
    /\ threads[t].pc = "init"
    /\ state_lock = 0
    /\ \E new \in NewGames(ConcInit) :
        /\ game_state' = new.game
        /\ random_state' = new.random_state
        /\ mt_stream' = new.mt_stream
    /\ excel_logger' = ExcelLogger
    /\ session_no' = session_no + 1
    /\ detached' = IF /\ game_state # None
                      /\ \E u \in Threads \ {t} :
                            /\ threads[u].pc # "idle"
                            /\ threads[u].ref = session_no
                   THEN Put(detached, session_no, game_state)
                   ELSE detached
    /\ state_lock' = t
    /\ threads' = [threads EXCEPT ![t].pc = "init_history"]
    /\ UNCHANGED <<ended_rounds, price_history, global_trade_counter,
                   response, round_end_called, generated, requests_begun>>

\* init_game from `price_history = ...` to its return.
InitHistory(t) ==
    /\ threads[t].pc = "init_history"
    /\ price_history' =
            record_price_snapshot(game_state,
                [cname \in DOMAIN game_state.commodities |-> <<>>], 0)
    /\ global_trade_counter' = 0
    /\ state_lock' = 0
    /\ threads' = [threads EXCEPT ![t] = Idle]
    /\ response' = Response("init_game", TRUE, "Game initialized.",
                            <<CommonValue(game_state, ConcInit)>>)
    /\ UNCHANGED <<game_state, ended_rounds, random_state, mt_stream,
                   round_end_called, generated, excel_logger, session_no,
                   detached, requests_begun>>

\* start_round up to `with state_lock`.
BeginStart(t) ==
    /\ CanBegin(t)
    /\ IF game_state = None
       THEN Refused(t, "start_round", NotInitialized)
       ELSE Taken(t, "start", Idle.req)

\* start_round from `with state_lock` to its return.
StartEnter(t) ==
    /\ threads[t].pc = "start"
    /\ state_lock = 0
    /\ Deref(threads[t].ref).current_round < MaxRound
    /\ StoreAndReturn(t, start_round(Deref(threads[t].ref)))
    /\ threads' = [threads EXCEPT ![t] = Idle]
    /\ response' = Response("start_round", TRUE, "Round started.",
                            <<Deref(threads[t].ref).current_round + 1>>)
    /\ UNCHANGED <<ended_rounds, price_history, global_trade_counter,
                   random_state, mt_stream, round_end_called, generated,
                   excel_logger, session_no, state_lock, requests_begun>>

\* One assignment pair of apply_trade's loops.
PendingLeg(payer, payee, cname, qty) ==
    [payer |-> payer, payee |-> payee, cname |-> cname, qty |-> qty]

\* The assignment pairs apply_trade makes for a request, in order.
PendingLegs(req) ==
    LET give_order == KeyOrder(req.give, 1)
        receive_order == KeyOrder(req.receive, 1)
    IN  [i \in 1..Len(give_order) |->
            PendingLeg(req.from_team, req.to_team, give_order[i],
                       BuildDict(req.give)[give_order[i]])]
        \o [i \in 1..Len(receive_order) |->
            PendingLeg(req.to_team, req.from_team, receive_order[i],
                       BuildDict(req.receive)[receive_order[i]])]

\* post_trade up to `with state_lock`.
BeginTrade(t, req) ==
    /\ CanBegin(t)
    /\ IF game_state = None
       THEN Refused(t, "trade", NotInitialized)
       ELSE IF ~(LegsPositive(req.give) /\ LegsPositive(req.receive))
       THEN Refused(t, "trade", "Quantities must be positive.")
       ELSE Taken(t, "trade", req)

\* Thread t raises out of the locked part of post_trade.
TradeRaises(t, kind) ==
    /\ response' = Response("trade", FALSE, kind, <<>>)
    /\ state_lock' = 0
    /\ threads' = [threads EXCEPT ![t] = Idle]
    /\ detached' = StillHeld(detached, t)
    /\ UNCHANGED <<game_state, ended_rounds, price_history,
                   global_trade_counter, random_state, mt_stream,
                   round_end_called, generated, excel_logger, session_no,
                   requests_begun>>

\* post_trade from `with state_lock` to the first assignment of apply_trade:
\* the tests of record_trade and the two look-ups of apply_trade.
TradeEnter(t) ==
    /\ threads[t].pc = "trade"
    /\ state_lock = 0
    /\ LET gs == Deref(threads[t].ref)
           req == threads[t].req
       IN  IF gs.current_round = 0
           THEN TradeRaises(t, "no active round")
           ELSE IF PairAlreadyTraded(gs, req.from_team, req.to_team)
           THEN TradeRaises(t, "duplicate pair")
           ELSE IF \/ req.from_team \notin DOMAIN gs.teams
                   \/ req.to_team \notin DOMAIN gs.teams
           THEN TradeRaises(t, "KeyError")
           ELSE /\ Len(gs.trades) < MaxTrades
                /\ state_lock' = t
                /\ threads' = [threads EXCEPT ![t] =
                        [@ EXCEPT !.pc = IF PendingLegs(req) = <<>>
                                         THEN "append" ELSE "legs",
                                  !.todo = PendingLegs(req),
                                  !.trade = [round_no |-> gs.current_round,
                                             from_team |-> req.from_team,
                                             to_team |-> req.to_team,
                                             give |-> BuildDict(req.give),
                                             receive |->
                                                BuildDict(req.receive)]]]
                /\ UNCHANGED <<game_state, ended_rounds, price_history,
                               global_trade_counter, random_state, mt_stream,
                               response, round_end_called, generated,
                               excel_logger, session_no, detached,
                               requests_begun>>

\* One pass of a loop of apply_trade.
TradeLeg(t) ==
    /\ threads[t].pc = "legs"
    /\ LET gs == Deref(threads[t].ref)
           leg == Head(threads[t].todo)
       IN  IF Get(gs.teams[leg.payer], leg.cname, 0) < leg.qty
           THEN TradeRaises(t, "insufficient holdings")
           ELSE /\ Store(t, [gs EXCEPT !.teams =
                        Transfer(gs.teams, leg.payer, leg.payee,
                                 leg.cname, leg.qty)])
                /\ threads' = [threads EXCEPT ![t] =
                        [@ EXCEPT !.pc = IF Tail(threads[t].todo) = <<>>
                                         THEN "append" ELSE "legs",
                                  !.todo = Tail(threads[t].todo)]]
                /\ UNCHANGED <<ended_rounds, price_history,
                               global_trade_counter, random_state, mt_stream,
                               response, round_end_called, generated,
                               excel_logger, session_no, state_lock,
                               requests_begun>>

\* self.trades.append(trade).
TradeAppend(t) ==
    /\ threads[t].pc = "append"
    /\ Store(t, [Deref(threads[t].ref) EXCEPT
                    !.trades = Append(@, threads[t].trade)])
    /\ threads' = [threads EXCEPT ![t].pc = "ratios"]
    /\ UNCHANGED <<ended_rounds, price_history, global_trade_counter,
                   random_state, mt_stream, response, round_end_called,
                   generated, excel_logger, session_no, state_lock,
                   requests_begun>>

\* update_ratios_auto(gs).
TradeRatios(t) ==
    /\ threads[t].pc = "ratios"
    /\ \E updated \in update_ratios_auto(Deref(threads[t].ref),
                                         Sensitivity, CircuitPct) :
        Store(t, [Deref(threads[t].ref) EXCEPT !.commodities = updated])
    /\ threads' = [threads EXCEPT ![t].pc = "prices"]
    /\ UNCHANGED <<ended_rounds, price_history, global_trade_counter,
                   random_state, mt_stream, response, round_end_called,
                   generated, excel_logger, session_no, state_lock,
                   requests_begun>>

\* update_prices_from_ratios(gs).
TradePrices(t) ==
    /\ threads[t].pc = "prices"
    /\ LET gs == Deref(threads[t].ref)
       IN  Store(t, [gs EXCEPT !.commodities =
                        update_prices_from_ratios(gs.commodities,
                                                  gs.base_commodity)])
    /\ threads' = [threads EXCEPT ![t].pc = "snapshot"]
    /\ UNCHANGED <<ended_rounds, price_history, global_trade_counter,
                   random_state, mt_stream, response, round_end_called,
                   generated, excel_logger, session_no, state_lock,
                   requests_begun>>

\* global_trade_counter += 1; record_price_snapshot(), which reads the
\* global game_state; then the lock is released.
TradeSnapshot(t) ==
    /\ threads[t].pc = "snapshot"
    /\ global_trade_counter' = global_trade_counter + 1
    /\ price_history' = record_price_snapshot(game_state, price_history,
                                              global_trade_counter + 1)
    /\ state_lock' = 0
    /\ threads' = [threads EXCEPT ![t].pc = "log"]
    /\ UNCHANGED <<game_state, ended_rounds, random_state, mt_stream,
                   response, round_end_called, generated, excel_logger,
                   session_no, detached, requests_begun>>

\* excel_logger.log_trade(trade), its first statement:
\* self.trade_counter += 1.
TradeLogCount(t) ==
    /\ threads[t].pc = "log"
    /\ excel_logger' = [excel_logger EXCEPT !.trade_counter = @ + 1]
    /\ threads' = [threads EXCEPT ![t] =
                    [@ EXCEPT !.pc = "log_row", !.logger = session_no]]
    /\ UNCHANGED <<game_state, ended_rounds, price_history,
                   global_trade_counter, random_state, mt_stream, response,
                   round_end_called, generated, session_no, detached,
                   state_lock, requests_begun>>

\* log_trade, the rest: the row is appended under the value trade_counter
\* has by now; post_trade returns.  (A logger init_game has replaced in the
\* meantime is followed no further.)
TradeLogRow(t) ==
    /\ threads[t].pc = "log_row"
    /\ excel_logger' =
            IF threads[t].logger # session_no THEN excel_logger
            ELSE [excel_logger EXCEPT !.sheet_trades =
                    Append(@, TradeRow(excel_logger.trade_counter,
                                       threads[t].trade,
                                       KeyOrder(threads[t].req.give, 1),
                                       KeyOrder(threads[t].req.receive, 1)))]
    /\ response' = Response("trade", TRUE, "ok",
                        <<threads[t].trade.round_no,
                          threads[t].trade.from_team,
                          threads[t].trade.to_team,
                          threads[t].trade.give, threads[t].trade.receive>>)
    /\ threads' = [threads EXCEPT ![t] = Idle]
    /\ detached' = StillHeld(detached, t)
    /\ UNCHANGED <<game_state, ended_rounds, price_history,
                   global_trade_counter, random_state, mt_stream,
                   round_end_called, generated, session_no, state_lock,
                   requests_begun>>

\* end_round up to `with state_lock`.
BeginEnd(t) ==
    /\ CanBegin(t)
    /\ IF game_state = None
       THEN Refused(t, "end_round", NotInitialized)
       ELSE Taken(t, "end", Idle.req)

\* end_round from `with state_lock` to its return.
EndEnter(t) ==
    /\ threads[t].pc = "end"
    /\ state_lock = 0
    /\ threads' = [threads EXCEPT ![t] = Idle]
    /\ LET gs == Deref(threads[t].ref)
       IN  IF gs.current_round = 0
           THEN /\ response' = Response("end_round", FALSE,
                                        "No active round.", <<>>)
                /\ StoreAndReturn(t, gs)
                /\ UNCHANGED ended_rounds
           ELSE IF gs.current_round \in ended_rounds
           THEN /\ response' = Response("end_round", TRUE, "already ended",
                                        <<gs.current_round>>)
                /\ StoreAndReturn(t, gs)
                /\ UNCHANGED ended_rounds
           ELSE /\ StoreAndReturn(t, [gs EXCEPT !.penalties_rs =
                        apply_round_penalties(gs, gs.current_round)])
                /\ ended_rounds' = ended_rounds \cup {gs.current_round}
                /\ response' = Response("end_round", TRUE, "Round ended.",
                                        <<gs.current_round>>)
    /\ UNCHANGED <<price_history, global_trade_counter, random_state,
                   mt_stream, round_end_called, generated, excel_logger,
                   session_no, state_lock, requests_begun>>

\* get_commodities: the ratio and the price of every commodity.
GetCommodities ==
    /\ game_state # None
    /\ response' = Response("commodities", TRUE, "",
            <<[cname \in DOMAIN game_state.commodities |->
                [ratio_vs_base |-> game_state.commodities[cname].base_ratio,
                 price_rs |-> game_state.commodities[cname].price]]>>)
    /\ UNCHANGED <<game_state, ended_rounds, price_history,
                   global_trade_counter, random_state, mt_stream,
                   round_end_called, generated, excel_logger>>
    /\ UNCHANGED in_flight

NextConc ==
    \/ \E t \in Threads :
        \/ BeginInit(t) \/ InitEnter(t) \/ InitHistory(t)
        \/ BeginStart(t) \/ StartEnter(t)
        \/ \E req \in ConcTrades : BeginTrade(t, req)
        \/ TradeEnter(t) \/ TradeLeg(t) \/ TradeAppend(t)
        \/ TradeRatios(t) \/ TradePrices(t) \/ TradeSnapshot(t)
        \/ TradeLogCount(t) \/ TradeLogRow(t)
        \/ BeginEnd(t) \/ EndEnter(t)
    \/ GetCommodities

SpecConc == Init /\ [][NextConc]_vars

(***************************************************************************)
(* The ratio update called by an engine caller that passes its own          *)
(* sensitivity coefficient and circuit percentage.  Round 1 is open; the    *)
(* caller records trades, updates the ratios and starts the next round.     *)
(***************************************************************************)
\* A base commodity and two others, three teams with the same holdings.
RatioGames ==
    {[commodities |-> [A |-> BandedCommodity(1, 0, 0),
                       B |-> BandedCommodity(b, 0, 0),
                       C |-> BandedCommodity(15, 0, 0)],
      teams |-> <<[A |-> 5, B |-> 100, C |-> 50],
                  [A |-> 5, B |-> 100, C |-> 50],
                  [A |-> 5, B |-> 100, C |-> 50]>>,
      base_commodity |-> "A",
      trades |-> <<>>,
      rounds |-> <<1>>,
      current_round |-> 1,
      penalties_rs |-> EmptyDict,
      round_open_ratios |-> [A |-> 1, B |-> b, C |-> 15]] :
     b \in {40, 100}}

\* The trades that caller records: B bought, B sold, B bought and C sold, C
\* alone surrendered.
RatioTrades ==
    { TradeRequest(1, 2, <<Leg("A", 2)>>, <<Leg("B", 30)>>),
      TradeRequest(2, 3, <<Leg("B", 30)>>, <<Leg("A", 2)>>),
      TradeRequest(1, 3, <<Leg("C", 10)>>, <<Leg("B", 30)>>),
      TradeRequest(3, 2, <<Leg("C", 10)>>, <<>>) }

\* The sensitivity coefficients and the circuit percentages that caller passes,
\* the defaults among them.
Sensitivities ==
    {Sensitivity, [num |-> 1, den |-> 1], [num |-> 3, den |-> 2]}
CircuitPcts == {CircuitPct, [num |-> 19, den |-> 20]}

InitRatios ==
    /\ game_state \in RatioGames
    /\ ended_rounds = {}
    /\ price_history = EmptyDict
    /\ global_trade_counter = 0
    /\ random_state = OsSeeded
    /\ mt_stream = EmptyDict
    /\ response = Response("none", TRUE, "", <<>>)
    /\ round_end_called = FALSE
    /\ generated = EmptyDict
    /\ excel_logger = None
    /\ session_no = 0
    /\ detached = EmptyDict
    /\ state_lock = 0
    /\ threads = [t \in Threads |-> Idle]
    /\ requests_begun = 0

\* game_state.record_trade(from_team, to_team, give, receive).
RecordTrade(req) ==
    LET recorded == record_trade(game_state, req.from_team, req.to_team,
                        KeyOrder(req.give, 1), BuildDict(req.give),
                        KeyOrder(req.receive, 1), BuildDict(req.receive))
    IN  /\ recorded.error = NoError => Len(game_state.trades) < MaxTrades
        /\ game_state' = recorded.gs
        /\ response' = Response("record_trade", recorded.error = NoError,
                                recorded.error.kind, <<>>)
        /\ UNCHANGED <<ended_rounds, price_history, global_trade_counter,
                       random_state, mt_stream, round_end_called, generated,
                       excel_logger>>
        /\ UNCHANGED in_flight

\* update_ratios_auto(game_state, sensitivity, circuit_pct).
UpdateRatios(sensitivity, circuit_pct) ==
    /\ \E updated \in update_ratios_auto(game_state, sensitivity, circuit_pct) :
            game_state' = [game_state EXCEPT !.commodities = updated]
    /\ response' = Response("update_ratios", TRUE, "",
                            <<sensitivity, circuit_pct>>)
    /\ UNCHANGED <<ended_rounds, price_history, global_trade_counter,
                   random_state, mt_stream, round_end_called, generated,
                   excel_logger>>
    /\ UNCHANGED in_flight

\* game_state.start_round(news).
NextRound ==
    /\ game_state.current_round < MaxRound
    /\ game_state' = start_round(game_state)
    /\ response' = Response("start_round", TRUE, "", <<>>)
    /\ UNCHANGED <<ended_rounds, price_history, global_trade_counter,
                   random_state, mt_stream, round_end_called, generated,
                   excel_logger>>
    /\ UNCHANGED in_flight

NextRatios ==
    \/ \E req \in RatioTrades : RecordTrade(req)
    \/ \E sensitivity \in Sensitivities, circuit_pct \in CircuitPcts :
            UpdateRatios(sensitivity, circuit_pct)
    \/ NextRound

SpecRatios == InitRatios /\ [][NextRatios]_vars

(***************************************************************************)
(* Properties.                                                             *)
(***************************************************************************)
Initialized == game_state # None

\* holdings.get(cname, 0) of team tname in game state gs.
Holding(gs, tname, cname) == Get(gs.teams[tname], cname, 0)

\* The step is a trade request the server accepted.
TradeAccepted == Initialized /\ response'.op = "trade" /\ response'.ok

\* The trade a step appended to the journal.
Appended == game_state'.trades[Len(game_state'.trades)]

\* The server has just accepted a trade between two different teams.
JustTraded ==
    /\ Initialized
    /\ response.op = "trade" /\ response.ok
    /\ LET last == game_state.trades[Len(game_state.trades)]
       IN  last.from_team # last.to_team

\* The request reached record_trade while a round was active.
Validated(req) ==
    /\ Initialized
    /\ LegsPositive(req.give) /\ LegsPositive(req.receive)
    /\ game_state.current_round # 0

\* C1: a trade rejected for insufficient holdings or for a negative quantity
\* leaves every team's holdings as they were before the call.
C1_RejectedTradeKeepsHoldings ==
    [][(/\ Initialized
        /\ response'.op = "trade"
        /\ response'.detail \in {"insufficient holdings", "negative quantity"})
       => game_state'.teams = game_state.teams]_vars

\* C2: conservation.  For every accepted trade and every commodity, what the
\* two parties hold together is the same after the trade as before.
C2_Conservation ==
    [][TradeAccepted =>
        \A cname \in DOMAIN game_state.commodities :
            Holding(game_state', Appended.from_team, cname)
              + Holding(game_state', Appended.to_team, cname)
            = Holding(game_state, Appended.from_team, cname)
              + Holding(game_state, Appended.to_team, cname)]_vars

\* An accepted trade between two teams has just moved units both ways.
C2_Witness ==
    /\ Initialized
    /\ response.op = "trade" /\ response.ok
    /\ LET tr == game_state.trades[Len(game_state.trades)]
       IN  /\ tr.from_team # tr.to_team
           /\ \E cname \in DOMAIN tr.give : tr.give[cname] > 0
           /\ \E cname \in DOMAIN tr.receive : tr.receive[cname] > 0
           /\ DOMAIN tr.give # DOMAIN tr.receive

\* C3: pairwise uniqueness.  Two distinct journal entries of the same round
\* never name the same unordered pair of teams.
C3_PairwiseUnique ==
    Initialized =>
        \A i, j \in 1..Len(game_state.trades) :
            (i # j /\ game_state.trades[i].round_no = game_state.trades[j].round_no)
            => {game_state.trades[i].from_team, game_state.trades[i].to_team}
               # {game_state.trades[j].from_team, game_state.trades[j].to_team}

\* The journal holds two trades of one round, and a request has just been
\* refused as a duplicate.
C3_Witness ==
    /\ Initialized
    /\ Len(game_state.trades) = 2
    /\ game_state.trades[1].round_no = game_state.trades[2].round_no
    /\ response.op = "trade" /\ response.detail = "duplicate pair"

\* The journal of gs holds a trade of round round_no between x and y, in
\* either direction.
JournalHolds(gs, round_no, x, y) ==
    \E i \in 1..Len(gs.trades) :
        /\ gs.trades[i].round_no = round_no
        /\ \/ gs.trades[i].from_team = x /\ gs.trades[i].to_team = y
           \/ gs.trades[i].from_team = y /\ gs.trades[i].to_team = x

\* C4: a trade submitted in round N between X and Y is refused as a duplicate
\* exactly when the journal already holds a round-N trade between X and Y in
\* either direction, and the refusal changes nothing of the game (holdings,
\* journal, ratios, prices).
C4_DuplicateExactly ==
    [][\A req \in TradeRequests :
        (Validated(req) /\ PostTrade(req)) =>
            /\ (response'.detail = "duplicate pair")
                <=> JournalHolds(game_state, game_state.current_round,
                                 req.from_team, req.to_team)
            /\ (response'.detail = "duplicate pair")
                => game_state' = game_state]_vars

\* A trade has just been refused as a duplicate in round 2, whose journal
\* holds one trade of round 1 and one of round 2.
C4_Witness ==
    /\ Initialized
    /\ response.op = "trade" /\ response.detail = "duplicate pair"
    /\ game_state.current_round = 2
    /\ \E i \in 1..Len(game_state.trades) : game_state.trades[i].round_no = 1
    /\ \E i \in 1..Len(game_state.trades) : game_state.trades[i].round_no = 2

\* Before the trade, a party holds less than it must surrender.
Short(gs, req) ==
    LET give == BuildDict(req.give)
        receive == BuildDict(req.receive)
    IN  \/ \E cname \in DOMAIN give :
            Holding(gs, req.from_team, cname) < give[cname]
        \/ \E cname \in DOMAIN receive :
            Holding(gs, req.to_team, cname) < receive[cname]

\* C5: a trade is refused for insufficient holdings whenever, in the state
\* before the trade, from_team holds less than give[c] or to_team holds less
\* than receive[c] for some commodity c.
C5_ShortIsRefused ==
    [][\A req \in TradeRequests :
        (/\ Validated(req)
         /\ req.from_team \in DOMAIN game_state.teams
         /\ req.to_team \in DOMAIN game_state.teams
         /\ ~JournalHolds(game_state, game_state.current_round,
                          req.from_team, req.to_team)
         /\ Short(game_state, req)
         /\ PostTrade(req))
        => response'.detail = "insufficient holdings"]_vars

\* C6: after an accepted trade, for every commodity c, from_team holds
\* old - give[c] + receive[c] and to_team holds old + give[c] - receive[c]
\* (an absent leg counts 0); every other team's holdings are unchanged; and
\* exactly one trade, carrying the current round number, is appended to the
\* end of the journal.
C6_TradeEffect ==
    [][TradeAccepted =>
        LET tr == Appended IN
        /\ \A cname \in DOMAIN game_state.commodities :
            /\ Holding(game_state', tr.from_team, cname)
                = Holding(game_state, tr.from_team, cname)
                  - Get(tr.give, cname, 0) + Get(tr.receive, cname, 0)
            /\ Holding(game_state', tr.to_team, cname)
                = Holding(game_state, tr.to_team, cname)
                  + Get(tr.give, cname, 0) - Get(tr.receive, cname, 0)
        /\ \A other \in DOMAIN game_state.teams \ {tr.from_team, tr.to_team} :
            game_state'.teams[other] = game_state.teams[other]
        /\ game_state'.trades = Append(game_state.trades, tr)
        /\ tr.round_no = game_state.current_round]_vars

\* The clamp bounds of the circuit breaker as the specification states them,
\* for the default circuit_pct of 20%.
StatedLower(open_ratio) == Max(1, RoundHalfEven(open_ratio * 4, 5))
StatedUpper(open_ratio) ==
    Max(StatedLower(open_ratio) + 1, RoundHalfEven(open_ratio * 6, 5))

NonBase(gs) == DOMAIN gs.commodities \ {gs.base_commodity}

\* C7: circuit bound.  While a round is open or closed, every non-base
\* commodity's ratio lies in [lower, upper] of the ratio captured when that
\* round started.
C7_CircuitBound ==
    (Initialized /\ game_state.current_round >= 1) =>
        \A cname \in NonBase(game_state) :
            LET open_ratio == game_state.round_open_ratios[cname]
                ratio == game_state.commodities[cname].base_ratio
            IN  StatedLower(open_ratio) <= ratio /\ ratio <= StatedUpper(open_ratio)

\* An accepted trade has just driven a ratio away from its round-open value,
\* onto a bound of the clamp.
C7_Witness ==
    /\ JustTraded
    /\ \E cname \in NonBase(game_state) :
        LET open_ratio == game_state.round_open_ratios[cname]
            ratio == game_state.commodities[cname].base_ratio
        IN  /\ ratio # open_ratio
            /\ ratio \in {StatedLower(open_ratio), StatedUpper(open_ratio)}

\* C8: within a round, no commodity's price differs from its price at the
\* moment the round started by more than 20% of that round-opening price.
\* (The round-opening price is BASE_PRICE_RS / open_ratio; the inequality
\* |p - o| <= o / 5 is stated on the exact fractions.)
C8_PriceWithinCircuitPct ==
    (Initialized /\ game_state.current_round >= 1) =>
        \A cname \in NonBase(game_state) :
            LET p == game_state.commodities[cname].price
                open_ratio == game_state.round_open_ratios[cname]
            IN  5 * Abs(p.num * open_ratio - BASE_PRICE_RS * p.den)
                    <= BASE_PRICE_RS * p.den

\* C8, amended: within a round, every non-base commodity's price lies between
\* BASE_PRICE_RS / upper and BASE_PRICE_RS / lower, the prices of the two
\* clamp bounds of the round-opening ratio.
C8_PriceWithinClampPrices ==
    (Initialized /\ game_state.current_round >= 1) =>
        \A cname \in NonBase(game_state) :
            LET p == game_state.commodities[cname].price
                open_ratio == game_state.round_open_ratios[cname]
            IN  /\ p.num * StatedLower(open_ratio) <= BASE_PRICE_RS * p.den
                /\ BASE_PRICE_RS * p.den <= p.num * StatedUpper(open_ratio)

\* An accepted trade has just raised a price by more than 20% of its
\* round-opening value.
C8_Witness ==
    /\ JustTraded
    /\ game_state.current_round >= 1
    /\ \E cname \in NonBase(game_state) :
        LET p == game_state.commodities[cname].price
            open_ratio == game_state.round_open_ratios[cname]
        IN  5 * (p.num * open_ratio - BASE_PRICE_RS * p.den)
                > BASE_PRICE_RS * p.den

RECURSIVE PowMod(_, _, _)
\* b^e modulo m.
PowMod(b, e, m) == IF e = 0 THEN 1 % m ELSE (b * PowMod(b, e - 1, m)) % m

RECURSIVE BinaryExponent(_, _)
\* The e >= 0 with 2^e <= n / r < 2^(e + 1), for 1 <= r <= n.
BinaryExponent(n, r) ==
    IF 2 * r <= n THEN 1 + BinaryExponent(n, 2 * r) ELSE 0

\* Whether price * ratio == BASE_PRICE_RS holds of the doubles, price being
\* the double nearest to BASE_PRICE_RS / den.  For den = ratio: the quotient
\* is m * 2^-s with s = 52 - e and m the integer nearest to
\* BASE_PRICE_RS * 2^s / ratio, so m * ratio misses BASE_PRICE_RS * 2^s by
\* err = min(rem, ratio - rem), rem the remainder of that division; the
\* product rounds to BASE_PRICE_RS (binary exponent 9, even significand) iff
\* err <= 2^(s - 44).  For any other den the product is nowhere near.
FloatProductIsBase(price, ratio) ==
    /\ price.num = BASE_PRICE_RS
    /\ price.den = ratio
    /\ LET e == BinaryExponent(BASE_PRICE_RS, ratio)
           rem == ((BASE_PRICE_RS % ratio) * PowMod(2, 52 - e, ratio)) % ratio
           err == Min(rem, ratio - rem)
       IN  2 * err <= 2 ^ (9 - e)

\* C9: base pricing.  In every state after init the base commodity's price
\* is BASE_PRICE_RS and every other commodity satisfies
\* price * ratio = BASE_PRICE_RS.
C9_PriceTimesRatioIsBase ==
    Initialized =>
        /\ game_state.commodities[game_state.base_commodity].price
            = FloatDiv(BASE_PRICE_RS, 1)
        /\ \A cname \in NonBase(game_state) :
            FloatProductIsBase(game_state.commodities[cname].price,
                               game_state.commodities[cname].base_ratio)

\* C9, amended: in every state after init the base commodity's price is
\* BASE_PRICE_RS and every other commodity's price is the float quotient
\* BASE_PRICE_RS / ratio of its current ratio: no price is stale.
C9_PriceNeverStale ==
    Initialized =>
        /\ game_state.commodities[game_state.base_commodity].price
            = FloatDiv(BASE_PRICE_RS, 1)
        /\ \A cname \in NonBase(game_state) :
            game_state.commodities[cname].price
                = FloatDiv(BASE_PRICE_RS, game_state.commodities[cname].base_ratio)

\* A round has just been ended whose trades moved a ratio away from its
\* round-open value.
C9_Witness ==
    /\ Initialized
    /\ response.op = "end_round" /\ response.ok
    /\ game_state.trades # <<>>
    /\ \E cname \in NonBase(game_state) :
        game_state.commodities[cname].base_ratio
            # game_state.round_open_ratios[cname]

\* C10: the base commodity's ratio is 1 in every state after init.
C10_BaseRatioIsOne ==
    Initialized =>
        game_state.commodities[game_state.base_commodity].base_ratio = 1

\* A trade has just been accepted in a round whose net demand for the base
\* commodity is not zero (the game was initialised with a base ratio of 4).
C10_Witness ==
    /\ JustTraded
    /\ compute_net_demand(game_state, game_state.current_round)
            [game_state.base_commodity] # 0

\* The step handles a /round/end request while a round number N >= 1 is
\* current.
EndRoundHandled ==
    /\ Initialized
    /\ game_state.current_round >= 1
    /\ response'.op = "end_round"

\* C11: round close is idempotent and penalties run exactly once per round.
\* The first /round/end handled while round N is current applies the penalty
\* computation and reports the round ended; every further one while N is
\* still current changes nothing of the game and reports that the round was
\* already ended.
C11_RoundCloseOnce ==
    [][EndRoundHandled =>
        IF ~round_end_called
        THEN /\ response'.detail = "Round ended."
             /\ game_state' =
                    [game_state EXCEPT !.penalties_rs =
                        apply_round_penalties(game_state,
                                              game_state.current_round)]
        ELSE /\ response'.detail = "already ended"
             /\ game_state' = game_state]_vars

\* C12: a trade is accepted only while a round is open.  Once /round/end has
\* closed the current round and until /round/start opens the next, every
\* trade submission is refused and changes nothing, so no trade is journaled
\* for a round whose penalties have been computed.
C12_NoTradeInClosedRound ==
    [][(/\ Initialized
        /\ game_state.current_round >= 1
        /\ round_end_called
        /\ response'.op = "trade")
        => /\ ~response'.ok
           /\ UNCHANGED <<game_state, price_history, global_trade_counter,
                          ended_rounds>>]_vars

\* C13: /round/start is taken only from round 0 or from a closed round: round
\* N + 1 never opens while round N is still open, so the penalty computation
\* of every opened round has run before the next round opens.
C13_StartOnlyFromClosedRound ==
    [][(/\ Initialized
        /\ game_state.current_round >= 1
        /\ response'.op = "start_round"
        /\ response'.ok)
        => round_end_called]_vars

\* The step is a /round/end that ran the penalty computation.
PenaltiesRun ==
    /\ Initialized
    /\ response'.op = "end_round"
    /\ response'.detail = "Round ended."

\* The team is neither from_team nor to_team of any journal trade of round
\* round_no.
TookNoPart(gs, round_no, tname) ==
    ~\E i \in 1..Len(gs.trades) :
        /\ gs.trades[i].round_no = round_no
        /\ tname \in {gs.trades[i].from_team, gs.trades[i].to_team}

\* Some holding of the team is outside its holding band; a bound of 0 does
\* not constrain.
OutOfBand(gs, tname) ==
    \E cname \in DOMAIN gs.commodities :
        LET c == gs.commodities[cname] IN
        \/ c.min_units # 0 /\ Holding(gs, tname, cname) < c.min_units
        \/ c.max_units # 0 /\ Holding(gs, tname, cname) > c.max_units

\* What the step adds to the team's cumulative penalty.
PenaltyAdded(tname) ==
    FracAdd(Get(game_state'.penalties_rs, tname, FracZero),
            FracScale(0 - 1, Get(game_state.penalties_rs, tname, FracZero)))

\* tenths / 10 of the team's portfolio value.
TenthsOfValue(gs, tname, tenths) ==
    LET value == value_rs(gs.teams[tname], gs.commodities)
    IN  Frac(value.num * tenths, value.den * 10)

\* C14: at round end the amount added to a team's cumulative penalty is
\* 10% of its portfolio value if it took part in no trade of the round, plus
\* 10% of its portfolio value if it violates a holding band: 20% with both,
\* nothing with neither.
C14_PenaltyAmount ==
    [][PenaltiesRun =>
        \A tname \in DOMAIN game_state.teams :
            PenaltyAdded(tname) =
                TenthsOfValue(game_state, tname,
                    (IF TookNoPart(game_state, game_state.current_round, tname)
                     THEN 1 ELSE 0)
                    + (IF OutOfBand(game_state, tname) THEN 1 ELSE 0))]_vars

\* A round has just been ended in which one team was charged 20%, one 10%
\* and one nothing.
C14_Witness ==
    /\ Initialized
    /\ response.op = "end_round" /\ response.detail = "Round ended."
    /\ \E t1, t2, t3 \in DOMAIN game_state.teams :
        /\ TookNoPart(game_state, game_state.current_round, t1)
        /\ OutOfBand(game_state, t1)
        /\ TookNoPart(game_state, game_state.current_round, t2)
            # OutOfBand(game_state, t2)
        /\ ~TookNoPart(game_state, game_state.current_round, t3)
        /\ ~OutOfBand(game_state, t3)
        /\ \A t \in {t1, t2, t3} :
            Get(game_state.penalties_rs, t, FracZero) # FracZero
              <=> t # t3

\* C15: a team is charged the no-trade penalty of round N exactly when it is
\* neither from_team nor to_team of any journal trade whose round number is
\* N: a trade of another round does not exempt it, and being to_team exempts
\* it as being from_team does.
C15_NoTradePenalty ==
    [][PenaltiesRun =>
        \A tname \in DOMAIN game_state.teams :
            LET with == TenthsOfValue(game_state, tname,
                            1 + (IF OutOfBand(game_state, tname) THEN 1 ELSE 0))
            IN  (PenaltyAdded(tname) = with)
                    <=> TookNoPart(game_state, game_state.current_round, tname)]_vars

\* Round 2 has just been ended; its one trade exempted its to_team, and a
\* team that traded in round 1 only was charged.
C15_Witness ==
    /\ Initialized
    /\ response.op = "end_round" /\ response.detail = "Round ended."
    /\ game_state.current_round = 2
    /\ \E i, j \in 1..Len(game_state.trades) :
        /\ game_state.trades[i].round_no = 1
        /\ game_state.trades[j].round_no = 2
        /\ game_state.trades[j].from_team # game_state.trades[j].to_team
        /\ game_state.trades[i].from_team
                \notin {game_state.trades[j].from_team,
                        game_state.trades[j].to_team}
        /\ TookNoPart(game_state, 2, game_state.trades[i].from_team)
        /\ ~TookNoPart(game_state, 2, game_state.trades[j].to_team)

\* C16: a team is charged the range-violation penalty exactly when some
\* commodity's holding is below a non-zero min_units or above a non-zero
\* max_units (an absent holding counts 0, a bound of 0 does not constrain),
\* and it is charged once however many commodities are out of band.
C16_RangePenalty ==
    [][PenaltiesRun =>
        \A tname \in DOMAIN game_state.teams :
            LET with == TenthsOfValue(game_state, tname,
                            1 + (IF TookNoPart(game_state,
                                        game_state.current_round, tname)
                                 THEN 1 ELSE 0))
            IN  (PenaltyAdded(tname) = with)
                    <=> \E cname \in DOMAIN game_state.commodities :
                          LET c == game_state.commodities[cname]
                              qty == IF cname \in DOMAIN game_state.teams[tname]
                                     THEN game_state.teams[tname][cname] ELSE 0
                          IN  \/ c.min_units # 0 /\ qty < c.min_units
                              \/ c.max_units # 0 /\ qty > c.max_units]_vars

\* A round has just been ended in which a team without an entry for A was
\* charged for A's minimum, while B, held in any quantity, has no bounds.
C16_Witness ==
    /\ Initialized
    /\ response.op = "end_round" /\ response.detail = "Round ended."
    /\ game_state.commodities["A"].min_units # 0
    /\ game_state.commodities["B"].min_units = 0
    /\ game_state.commodities["B"].max_units = 0
    /\ \E tname \in DOMAIN game_state.teams :
        /\ "A" \notin DOMAIN game_state.teams[tname]
        /\ Get(game_state.penalties_rs, tname, FracZero) # FracZero
    /\ \E tname \in DOMAIN game_state.teams :
        /\ ~TookNoPart(game_state, game_state.current_round, tname)
        /\ Get(game_state.penalties_rs, tname, FracZero) = FracZero

\* The step stays within one session: it is not a successful init.
SameSession ==
    /\ Initialized
    /\ ~(response'.op = "init_game" /\ response'.ok)

\* C17: within a session every team's cumulative penalty is non-negative and
\* never decreases, whatever is started, traded (accepted or refused) or
\* ended; only /round/end changes it.
C17_PenaltiesMonotone ==
    [][SameSession =>
        \A tname \in DOMAIN game_state.teams :
            LET before == Get(game_state.penalties_rs, tname, FracZero)
                after == Get(game_state'.penalties_rs, tname, FracZero)
            IN  /\ FracLeq(FracZero, after)
                /\ FracLeq(before, after)
                /\ after # before => response'.op = "end_round"]_vars

\* Round 2 has just been ended after trades, and a team's cumulative penalty
\* exceeds what one round can charge: it was charged in both rounds.
C17_Witness ==
    /\ Initialized
    /\ response.op = "end_round" /\ response.detail = "Round ended."
    /\ game_state.current_round = 2
    /\ game_state.trades # <<>>
    /\ \E tname \in DOMAIN game_state.teams :
        ~FracLeq(Get(game_state.penalties_rs, tname, FracZero),
                 TenthsOfValue(game_state, tname, 2))

\* The generator has just returned: init_game succeeded.
JustGenerated ==
    /\ Initialized
    /\ response.op = "init_game" /\ response.ok

C19_Determinism ==
    \A req \in DOMAIN generated :
        Cardinality(generated[req].outcomes) = 1

\* A configuration whose draws gave two teams different holdings has been
\* generated more than once, another configuration with another seed has
\* been generated too, and other code has drawn from the random module
\* since the last seeding.
C19_Witness ==
    /\ \E req, other \in DOMAIN generated :
        /\ generated[req].repeated
        /\ req.num_teams = 2
        /\ \E teams \in generated[req].outcomes : teams[1] # teams[2]
        /\ other.target_value_hint # req.target_value_hint
    /\ random_state.drawn = MaxDraws

\* C20: the generator draws from a random source of its own: a generator call
\* leaves the state of the process-wide random module as it found it.
C20_RandomModuleUntouched ==
    [][(response'.op = "init_game" /\ response'.ok)
        => random_state' = random_state]_vars

\* C21: right after the generator runs, every team's holding of every
\* commodity is a positive multiple of the commodity's ratio and lies within
\* the allocation band [alloc_min_units, alloc_max_units], whatever the
\* random draws gave.
C21_AllocationBand ==
    JustGenerated =>
        \A tname \in DOMAIN game_state.teams :
            \A cname \in DOMAIN game_state.commodities :
                LET c == game_state.commodities[cname]
                    held == game_state.teams[tname][cname]
                IN  /\ held > 0
                    /\ held % c.base_ratio = 0
                    /\ c.alloc_min_units <= held
                    /\ held <= c.alloc_max_units

\* The generator has just left one team at the top of a commodity's
\* allocation band and another team at the bottom of the same band, for a
\* commodity whose ratio is above 1.
C21_Witness ==
    /\ JustGenerated
    /\ \E t1, t2 \in DOMAIN game_state.teams :
        \E cname \in DOMAIN game_state.commodities :
            LET c == game_state.commodities[cname]
            IN  /\ c.base_ratio > 1
                /\ game_state.teams[t1][cname] = c.alloc_max_units
                /\ game_state.teams[t2][cname] = c.alloc_min_units
                /\ c.alloc_min_units < c.alloc_max_units

\* The step is a trade or end-round request handled while the session is in
\* round 0.
AtRoundZero ==
    /\ Initialized
    /\ game_state.current_round = 0
    /\ response'.op \in {"trade", "end_round"}

\* The step changes nothing of the session or of the server's globals.
NothingChanged ==
    /\ game_state' = game_state
    /\ ended_rounds' = ended_rounds
    /\ price_history' = price_history
    /\ global_trade_counter' = global_trade_counter

\* C24: while the current round is 0, every trade submission and every
\* end-round call is rejected with a no-active-round error and changes no
\* state, and a ratio update at round 0 changes no ratio.
C24_RoundZeroRejects ==
    [][AtRoundZero =>
        /\ ~response'.ok
        /\ response'.detail \in {"no active round", "No active round."}
        /\ NothingChanged
        /\ update_ratios_auto(game_state', Sensitivity, CircuitPct)
                = {game_state'.commodities}]_vars

\* C24 as the code has it: while the current round is 0, every end-round call
\* is rejected with a no-active-round error, and every trade submission is
\* rejected with a no-active-round error or, when one of its quantities is
\* not positive, with the server's own invalid-quantity error; either way no
\* state changes, and a ratio update at round 0 changes no ratio.
C24_RoundZeroRejects_Amended ==
    [][AtRoundZero =>
        /\ ~response'.ok
        /\ \/ response'.detail \in {"no active round", "No active round."}
           \/ /\ response'.op = "trade"
              /\ response'.detail = "Quantities must be positive."
        /\ NothingChanged
        /\ update_ratios_auto(game_state', Sensitivity, CircuitPct)
                = {game_state'.commodities}]_vars

\* A trade has just been refused for want of an active round, in a session
\* that follows one whose round 1 was ended.
C24_Witness ==
    /\ Initialized
    /\ game_state.current_round = 0
    /\ response.op = "trade" /\ response.detail = "no active round"
    /\ 1 \in ended_rounds

\* An init request whose configuration is invalid: a team count that is not
\* positive, no commodities, a ratio that is not positive, a commodity name
\* listed twice, or a base commodity that is not listed.
InvalidConfiguration(req) ==
    LET cs == req.commodities
    IN  \/ req.num_teams <= 0
        \/ cs = <<>>
        \/ \E i \in 1..Len(cs) : cs[i].ratio <= 0
        \/ \E i, j \in 1..Len(cs) : i # j /\ cs[i].name = cs[j].name
        \/ req.base_commodity \notin {cs[i].name : i \in 1..Len(cs)}

\* C25: an init call with an invalid configuration is rejected and leaves an
\* existing session completely unchanged: the session object with its
\* holdings, journal, round number and penalties, and the price history, are
\* what they were before the call.
C25_InvalidInitKeepsSession ==
    [][\A req \in InitRequests :
        (InvalidConfiguration(req) /\ InitGame(req)) =>
            /\ response'.op = "init_game" /\ ~response'.ok
            /\ NothingChanged]_vars

\* An init has just been rejected while a session with a journaled trade and
\* a penalty was in place.
C25_Witness ==
    /\ Initialized
    /\ response.op = "init_game" /\ ~response.ok
    /\ game_state.trades # <<>>
    /\ game_state.penalties_rs # EmptyDict

\* What the server answers to trade request req in game state gs: the kind
\* of the error, "" when the trade is accepted.
Validation(gs, req) ==
    IF ~(LegsPositive(req.give) /\ LegsPositive(req.receive))
    THEN "Quantities must be positive."
    ELSE record_trade(gs, req.from_team, req.to_team,
                      KeyOrder(req.give, 1), BuildDict(req.give),
                      KeyOrder(req.receive, 1), BuildDict(req.receive)).error.kind

\* The commodities dicts, ratios and prices, trade request req can leave in
\* game state gs; none when the trade is rejected.
Pricing(gs, req) ==
    IF Validation(gs, req) # "" THEN {}
    ELSE LET recorded == record_trade(gs, req.from_team, req.to_team,
                            KeyOrder(req.give, 1), BuildDict(req.give),
                            KeyOrder(req.receive, 1), BuildDict(req.receive))
         IN  {update_prices_from_ratios(updated, gs.base_commodity) :
                updated \in update_ratios_auto(recorded.gs,
                                               Sensitivity, CircuitPct)}

\* A rejected trade leaves the journal, the ratios and prices, the
\* circuit-breaker snapshot, the price history, the trade counter, the round
\* number and the penalties as they were.
RejectionLeavesNoRecord ==
    /\ game_state'.trades = game_state.trades
    /\ game_state'.commodities = game_state.commodities
    /\ game_state'.round_open_ratios = game_state.round_open_ratios
    /\ game_state'.current_round = game_state.current_round
    /\ game_state'.penalties_rs = game_state.penalties_rs
    /\ price_history' = price_history
    /\ global_trade_counter' = global_trade_counter

\* The trades a rejection is followed by: the requests of the model and a
\* surrender of 60 B, more than the generator gives any team.
LaterTrades ==
    TradeRequests \cup {TradeRequest(3, 2, <<Leg("B", 60)>>, <<>>)}

\* C26: a rejected trade of any error kind appends nothing to the journal and
\* leaves ratios, prices, the circuit-breaker snapshot, the price history,
\* the trade counter, the round number and the penalties unchanged, so that
\* a later trade by a different pair is validated and priced exactly as if
\* the rejected trade had never been submitted.
C26_RejectedTradeLeavesNoTrace ==
    [][\A req \in TradeRequests :
        (Initialized /\ PostTrade(req) /\ ~response'.ok) =>
            /\ RejectionLeavesNoRecord
            /\ \A later \in LaterTrades :
                {later.from_team, later.to_team}
                        # {req.from_team, req.to_team} =>
                    /\ Validation(game_state', later)
                            = Validation(game_state, later)
                    /\ Pricing(game_state', later)
                            = Pricing(game_state, later)]_vars

\* C27: the leaderboard is a pure read.  It returns every team exactly once,
\* in an order in which the effective value (portfolio value less cumulative
\* penalty) never increases from one entry to the next, and it changes no
\* holdings, penalties, ratios, prices, journal or round number.
C27_LeaderboardPureRead ==
    [][(response'.op = "leaderboard" /\ response'.ok) =>
        LET board == response'.info
        IN  /\ NothingChanged
            /\ Len(board) = Len(game_state.teams)
            /\ \A tname \in DOMAIN game_state.teams :
                Cardinality({i \in 1..Len(board) : board[i].name = tname}) = 1
            /\ \A i \in 1..Len(board) :
                board[i].effective_value_rs
                    = FracSub(value_rs(game_state.teams[board[i].name],
                                       game_state.commodities),
                              Get(game_state.penalties_rs, board[i].name,
                                  FracZero))
            /\ \A i \in 1..(Len(board) - 1) :
                FracLeq(board[i + 1].effective_value_rs,
                        board[i].effective_value_rs)]_vars

\* The leaderboard has just been returned for a session with trades and
\* penalties: Team 1 is not first, and the first and the last entry differ
\* in effective value.
C27_Witness ==
    /\ response.op = "leaderboard" /\ response.ok
    /\ game_state.trades # <<>>
    /\ game_state.penalties_rs # EmptyDict
    /\ response.info[1].name # 1
    /\ response.info[1].effective_value_rs
            # response.info[Len(response.info)].effective_value_rs

\* No handler is running.
Quiescent == \A t \in Threads : threads[t].pc = "idle"

\* C28: the price history gets exactly one sample per commodity at init and
\* one per commodity after every successful trade.  With n trades in the
\* session's journal, every commodity's history has exactly n + 1 samples,
\* their sequence indices are 0, 1, ..., n in order, and the trade counter
\* equals n, whenever no request is being handled.
C28_OneSamplePerTrade ==
    (Initialized /\ Quiescent) =>
        LET n == Len(game_state.trades)
        IN  /\ global_trade_counter = n
            /\ DOMAIN price_history = DOMAIN game_state.commodities
            /\ \A cname \in DOMAIN game_state.commodities :
                /\ Len(price_history[cname]) = n + 1
                /\ \A i \in 1..(n + 1) :
                    price_history[cname][i].trade_index = i - 1

\* C30: right after every start-round the circuit-breaker snapshot holds, for
\* every commodity, that commodity's ratio at that moment; no trade, ratio
\* update, price update or end-round changes the snapshot, only the next
\* start-round replaces it.
C30_SnapshotPerRound ==
    [][SameSession =>
        IF response'.op = "start_round" /\ response'.ok
        THEN game_state'.round_open_ratios
                = [cname \in DOMAIN game_state.commodities |->
                    game_state.commodities[cname].base_ratio]
        ELSE game_state'.round_open_ratios
                = game_state.round_open_ratios]_vars

\* A trade of round 2 has just moved the ratio of B away from the snapshot
\* round 2 was opened with, which is itself not the ratio the session began
\* with: a trade of round 1 had moved it.
C30_Witness ==
    /\ Initialized
    /\ response.op = "trade" /\ response.ok
    /\ game_state.current_round = 2
    /\ game_state.round_open_ratios["B"] # 15
    /\ game_state.commodities["B"].base_ratio
            # game_state.round_open_ratios["B"]

\* C22: the mutating operations are serialized: however init, start-round,
\* trade and end-round requests overlap, the outcome is that of handling
\* them one at a time.  In particular a trade that overlaps an init never
\* changes the holdings of one session while its trade count and its price
\* sample go to another: when a trade writes the counter and the price
\* history, the session it journaled the trade in is the session
\* game_state names.
C22_TradeStaysInItsSession ==
    [][\A t \in Threads :
        (threads[t].pc = "snapshot" /\ threads'[t].pc = "log")
            => threads[t].ref = session_no]_vars

\* C23: a read never interleaves with a mutation in flight.  In particular
\* the commodity listing never shows a commodity with a ratio already
\* updated while its price is still the one of the old ratio.
C23_ReadsSeeNoMutationInFlight ==
    [][(response'.op = "commodities" /\ response'.ok) =>
        \A cname \in DOMAIN response'.info[1] :
            response'.info[1][cname].price_rs
                = FloatDiv(BASE_PRICE_RS,
                           response'.info[1][cname].ratio_vs_base)]_vars

\* C29: the rows of the Trades sheet carry the identifiers 1, 2, 3, ...
\* without duplicate or gap, however successful trade submissions overlap,
\* and once the handlers have returned the rows are in the order of the
\* trades in the engine's journal.
C29_TradeIdsInJournalOrder ==
    excel_logger # None =>
        LET rows == excel_logger.sheet_trades
        IN  /\ \A i \in 1..Len(rows) : rows[i].TradeID = i
            /\ (Initialized /\ Quiescent) =>
                \A i \in 1..Min(Len(rows), Len(game_state.trades)) :
                    /\ rows[i].FromTeam = game_state.trades[i].from_team
                    /\ rows[i].ToTeam = game_state.trades[i].to_team
                    /\ rows[i].Round = game_state.trades[i].round_no

\* The ratios the stated rule allows for the non-base commodity cname:
\* clamp(max(1, round(old_ratio * factor)), lower, upper) with
\* factor = max(0.1, 1 - sensitivity * delta), delta = net / total_abs.
StatedRatios(gs, cname, sensitivity, circuit_pct) ==
    LET names == DOMAIN gs.commodities
        net == compute_net_demand(gs, gs.current_round)
        sum_abs == SumOver([n \in names |-> Abs(net[n])], names)
        total_abs == IF sum_abs = 0 THEN 1 ELSE sum_abs
        old_ratio == Max(1, gs.commodities[cname].base_ratio)
        fnum == sensitivity.den * total_abs - sensitivity.num * net[cname]
        fden == sensitivity.den * total_abs
        rounded == IF 10 * fnum <= fden
                   THEN RoundOfComputed(old_ratio, 10)
                   ELSE RoundOfComputed(old_ratio * fnum, fden)
        open0 == Get(gs.round_open_ratios, cname, old_ratio)
        open_ratio == IF open0 < 1 THEN 1 ELSE open0
        lower == CircuitLower(open_ratio, circuit_pct)
        upper == CircuitUpper(open_ratio, circuit_pct)
    IN  {Min(Max(Max(1, p), lower), upper) : p \in rounded}

\* C31: whatever the sensitivity coefficient and the net demand, the ratio a
\* ratio update writes for a non-base commodity is
\* clamp(max(1, round(old_ratio * factor)), lower, upper) with
\* factor = max(0.1, 1 - sensitivity * delta); the factor is 0.1 whenever
\* 1 - sensitivity * delta is below 0.1.
C31_FactorFlooredAtTenth ==
    [][response'.op = "update_ratios" =>
        \A cname \in NonBase(game_state) :
            game_state'.commodities[cname].base_ratio
                \in StatedRatios(game_state, cname,
                                 response'.info[1], response'.info[2])]_vars

\* The net demand of the current round, the journal as the step leaves it.
NetAfter == compute_net_demand(game_state', game_state'.current_round)

\* C32: demand direction.  The ratio update of an accepted trade never raises
\* the ratio of a non-base commodity whose net demand in the current round is
\* positive and never lowers the ratio of one whose net demand is negative, the
\* circuit clamp included.
C32_DemandDirection ==
    [][TradeAccepted =>
        \A cname \in NonBase(game_state) :
            LET old_ratio == game_state.commodities[cname].base_ratio
                new_ratio == game_state'.commodities[cname].base_ratio
            IN  /\ NetAfter[cname] > 0 => new_ratio <= old_ratio
                /\ NetAfter[cname] < 0 => new_ratio >= old_ratio]_vars

\* A trade was accepted that left a non-base commodity in positive net demand,
\* and the ratio update took its ratio down to the circuit's lower clamp.
C32_Witness ==
    /\ Initialized
    /\ response.op = "trade" /\ response.ok
    /\ \E cname \in NonBase(game_state) :
        /\ compute_net_demand(game_state, game_state.current_round)[cname] > 0
        /\ game_state.commodities[cname].base_ratio
            = CircuitLower(game_state.round_open_ratios[cname], CircuitPct)
        /\ game_state.commodities[cname].base_ratio
            < game_state.round_open_ratios[cname]

\* C39: the ratio update of an accepted trade leaves unchanged the ratio of
\* every non-base commodity whose net demand over the current round's trades
\* is zero, whether the round's trades cancel out or never named it.
C39_ZeroDemandKeepsRatio ==
    [][TradeAccepted =>
        \A cname \in NonBase(game_state) :
            NetAfter[cname] = 0 =>
                game_state'.commodities[cname].base_ratio
                    = game_state.commodities[cname].base_ratio]_vars

\* A trade was accepted that brought the net demand of a non-base commodity
\* back to zero while its ratio was away from the round-open ratio.
C39_Witness ==
    /\ Initialized
    /\ response.op = "trade" /\ response.ok
    /\ \E cname \in NonBase(game_state) :
        /\ compute_net_demand(game_state, game_state.current_round)[cname] = 0
        /\ \E i \in 1..Len(game_state.trades) :
            /\ game_state.trades[i].round_no = game_state.current_round
            /\ cname \in DOMAIN game_state.trades[i].give
                            \cup DOMAIN game_state.trades[i].receive
        /\ game_state.commodities[cname].base_ratio
            # game_state.round_open_ratios[cname]

\* The journal and the round list of session gs agree: every entry's round is
\* one of 1..current_round, the rounds never go down along the journal, and
\* the round list is 1, 2, ..., current_round.
JournalConsistent(gs) ==
    /\ \A i \in 1..Len(gs.trades) :
        /\ gs.trades[i].round_no \in 1..gs.current_round
        /\ \A j \in 1..(i - 1) : gs.trades[j].round_no <= gs.trades[i].round_no
    /\ gs.rounds = [i \in 1..gs.current_round |-> i]

\* C33: the journal is append-only and consistent with the round list.  No
\* operation on a session removes, reorders or alters a journal entry; every
\* entry's round is between 1 and the current round and the rounds never go
\* down along the journal; the round list is exactly 1..current_round; only a
\* start of round changes the current round, by exactly +1.
C33_JournalAppendOnly ==
    [][game_state' # None =>
        /\ JournalConsistent(game_state')
        /\ SameSession =>
            /\ Len(game_state'.trades) >= Len(game_state.trades)
            /\ SubSeq(game_state'.trades, 1, Len(game_state.trades))
                = game_state.trades
            /\ game_state'.current_round # game_state.current_round =>
                /\ response'.op = "start_round" /\ response'.ok
                /\ game_state'.current_round = game_state.current_round + 1]_vars

\* The journal holds a trade of round 1 and a trade of round 2, and a trade
\* submission has just been refused.
C33_Witness ==
    /\ Initialized
    /\ game_state.current_round = 2
    /\ Len(game_state.trades) = 2
    /\ game_state.trades[1].round_no = 1
    /\ game_state.trades[2].round_no = 2
    /\ response.op = "trade" /\ ~response.ok

\* C34: after init every team's holding of every commodity is a non-negative
\* integer, whatever trades were accepted or refused (those refused part-way
\* through their legs included) and whatever rounds were started and ended.
C34_HoldingsNonNegative ==
    Initialized =>
        \A tname \in DOMAIN game_state.teams :
            \A cname \in DOMAIN game_state.teams[tname] :
                game_state.teams[tname][cname] \in Nat

\* A trade has just been refused for insufficient holdings part-way through
\* its legs: a team that no journal entry names holds something other than
\* what the generator gave it.
C34_Witness ==
    /\ Initialized
    /\ response.op = "trade" /\ response.detail = "insufficient holdings"
    /\ \E tname \in DOMAIN game_state.teams :
        /\ \A i \in 1..Len(game_state.trades) :
            tname \notin {game_state.trades[i].from_team,
                          game_state.trades[i].to_team}
        /\ \A req \in DOMAIN generated :
            \A teams \in generated[req].outcomes :
                teams[tname] # game_state.teams[tname]

\* The units of cname that the teams of session gs hold together.
Supply(gs, cname) ==
    SumOver([tname \in DOMAIN gs.teams |-> Holding(gs, tname, cname)],
            DOMAIN gs.teams)

\* C35: global supply is constant.  From the end of init on, no request
\* handled for the session changes the sum over all teams of the holdings of
\* any commodity: not an accepted trade, not a refused one, not a start or an
\* end of round.
C35_SupplyConstant ==
    [][SameSession =>
        \A cname \in DOMAIN game_state.commodities :
            Supply(game_state', cname) = Supply(game_state, cname)]_vars

\* A round has just been ended with penalties charged, after a trade between
\* a team and itself was journaled.
C35_Witness ==
    /\ Initialized
    /\ response.op = "end_round" /\ response.detail = "Round ended."
    /\ \E tname \in DOMAIN game_state.penalties_rs :
        game_state.penalties_rs[tname] # FracZero
    /\ \E i \in 1..Len(game_state.trades) :
        game_state.trades[i].from_team = game_state.trades[i].to_team

\* C36: every journal entry names two distinct teams.  A submission in which a
\* team trades with itself is never journaled, so it neither counts the team
\* as active for the no-trade penalty nor enters net demand.
C36_NoSelfTrade ==
    Initialized =>
        \A i \in 1..Len(game_state.trades) :
            game_state.trades[i].from_team # game_state.trades[i].to_team

\* C37: every successful init yields a fresh session, also after an earlier
\* session has played and ended rounds: round 0, an empty journal, an empty
\* round list, no penalties, a price history of the initial sample only, trade
\* counter 0, and no round number marked as already ended.
C37_InitYieldsFreshSession ==
    [][(response'.op = "init_game" /\ response'.ok) =>
        /\ game_state'.current_round = 0
        /\ game_state'.trades = <<>>
        /\ game_state'.rounds = <<>>
        /\ \A tname \in DOMAIN game_state'.teams :
            Get(game_state'.penalties_rs, tname, FracZero) = FracZero
        /\ \A cname \in DOMAIN game_state'.commodities :
            Len(price_history'[cname]) = 1
        /\ global_trade_counter' = 0
        /\ ended_rounds' = {}]_vars

\* C38: right after init every team's holding of every commodity lies within
\* the commodity's holding band [min_units, max_units]: the allocation band
\* lies inside the holding band, so the final clamp changes nothing, and no
\* team is in range violation with the holdings the generator gave it.
C38_InitialHoldingsInBand ==
    JustGenerated =>
        /\ \A cname \in DOMAIN game_state.commodities :
            LET c == game_state.commodities[cname]
            IN  /\ c.min_units <= c.alloc_min_units
                /\ c.alloc_max_units <= c.max_units
                /\ \A tname \in DOMAIN game_state.teams :
                    /\ c.min_units <= game_state.teams[tname][cname]
                    /\ game_state.teams[tname][cname] <= c.max_units
        /\ \A tname \in DOMAIN game_state.teams :
            ~check_min_max_violation(game_state, game_state.teams[tname])

\* The generator has just left a team at the top of the allocation band of a
\* commodity whose holding band reaches higher.
C38_Witness ==
    /\ JustGenerated
    /\ \E cname \in DOMAIN game_state.commodities :
        LET c == game_state.commodities[cname]
        IN  /\ c.alloc_max_units < c.max_units
            /\ \E tname \in DOMAIN game_state.teams :
                game_state.teams[tname][cname] = c.alloc_max_units

====
